---- MODULE Spec2Model ----
(***************************************************************************)
(* The event store's append path (internal/eventstore/repository/sql/      *)
(* crdb.go): CRDB.Push, the crdbInsert statement and                       *)
(* CRDB.handleUniqueConstraints, run by concurrent callers against one     *)
(* store with serializable transactions and crdb.ExecuteTx's retry loop.   *)
(*                                                                         *)
(* A transaction reads the committed tables as of its start and its own    *)
(* writes; its writes become visible at commit.  A transaction whose reads *)
(* were overwritten by a transaction that committed in between is aborted  *)
(* by the store with a retryable error and ExecuteTx runs the closure      *)
(* again.                                                                  *)
(***************************************************************************)
EXTENDS Integers, Sequences, FiniteSets, TLC

\* ------------------------------------------------------------------ bounds
\* Commands submitted over a whole run by concurrent callers, by a single
\* caller, and commands of one Push.
MaxCmds == 2
MaxSerialCmds == 3
MaxBatch == 2
\* Commands submitted while the projections catch up.
MaxProjCmds == 3
\* Commands submitted on the sessions of a user whose password changes.
MaxPasswordCmds == 4
\* Characters of an instance ID.
MaxIDLen == 6
\* Events of one catch-up step of a projection.
BatchLimit == 2

\* ------------------------------------------------------------------ domains
Procs == {"p1", "p2"}

\* authz.GetInstance(ctx).InstanceID(): the instance of the caller's context.
CtxInstances == {"i1", "i2"}
\* command.Aggregate().InstanceID: "" means unset.
CmdInstances == {"", "i2"}
AggTypes == {"org", "user"}
AggIDs == {"a1", "a2"}
Owners == {"ro1", "ro2"}
EventTypes == {"added", "changed"}
\* command.Payload(): Nil is the nil payload.
Nil == "nil"
\* A payload json.Marshal fails on (a channel, a function).
Unmarshalable == "chan"
Payloads == {Nil, "d", Unmarshalable}
UniqueTypes == {"name", "mail"}

\* SQL NULL, and a column holding value v.
NULL == {}
Val(v) == {v}
Get(col) == CHOOSE v \in col : TRUE

NoError == [kind |-> "none", msg |-> ""]
ThrowInternal(msg) == [kind |-> "Internal", msg |-> msg]
ThrowAlreadyExists(msg) == [kind |-> "AlreadyExists", msg |-> msg]
\* Errors that are no CaosError: that of json.Marshal, and that of the
\* driver when a transaction cannot be begun or committed.
MarshalError == [kind |-> "untyped", msg |-> "json: unsupported type"]
DriverError == [kind |-> "untyped", msg |-> "driver: bad connection"]

\* A storage fault (a failed statement, a cancelled context) injected into
\* one run of the transaction: at the k-th event insert or the k-th
\* unique-constraint statement.
NoFault == [at |-> "none", k |-> 0]
Fault(at, k) == [at |-> at, k |-> k]

\* ------------------------------------------------------------------ inputs
Cmd(inst, typ, id, owner, etyp, payload, ucs) ==
  [inst |-> inst, typ |-> typ, id |-> id, owner |-> owner, etyp |-> etyp,
   payload |-> payload, ucs |-> ucs]

UniqueConstraint(action, t, f) ==
  [action |-> action, unique_type |-> t, unique_field |-> f,
   msg |-> <<"Errors.AlreadyExists", t>>]

\* eventstore.NewAddEventUniqueConstraint and friends, as callers declare them.
UCs ==
  {UniqueConstraint("Add", t, f) : t \in UniqueTypes, f \in {"Bob", "bob"}}
  \cup {UniqueConstraint("Remove", "name", "BOB"),
        UniqueConstraint("InstanceRemove", "", "")}

\* Commands without side effects: every aggregate of the caller's instance,
\* one aggregate addressed with an explicit instance, and one command that
\* differs in owner, event type and payload.
SeqCmds ==
  {Cmd("", t, a, "ro1", "added", Nil, <<>>) : t \in AggTypes, a \in AggIDs}
  \cup {Cmd("i2", "org", "a1", "ro1", "added", Nil, <<>>),
        Cmd("", "org", "a1", "ro2", "changed", "d", <<>>)}
\* Commands on one aggregate that declare a unique-constraint side effect.
UCCmds ==
  {Cmd("", "org", "a1", "ro1", "added", Nil, <<uc>>) : uc \in UCs}

Batches(C) == UNION {[1..n -> C] : n \in 1..MaxBatch}

\* ------------------------------------------------------------------ state
VARIABLES
  log,     \* eventstore.events: the committed rows, in commit order
  uniq,    \* eventstore.unique_constraints: row -> number of copies stored
  pc,      \* per caller: "idle", "run" (closure to run), "commit", "ret"
  ctx,     \* per caller: the instance of the context of its Push
  cmds,    \* per caller: the commands of its Push
  tx,      \* per caller: what the closure did, and what Push returns
  stale,   \* per caller: a committed transaction overwrote what it read
  nsub,    \* commands submitted so far
  mvcc,    \* crdb_internal_mvcc_timestamp of each row of log
  clock,   \* the store's wall clock: what statement_timestamp() returns next
  out,     \* what the last read (Filter, LatestSequence, ...) returned
  executions,  \* projections.executions: the rows of the table
  sessions,    \* projections.sessions4: the rows of the table
  watermark,   \* per projection and instance: the sequence the projection reached
  processed    \* per projection: the events of the committed catch-up steps

\* The state of the read side: the reads' results and the projection.
projections == <<executions, sessions, watermark, processed>>
readSide == <<out, executions, sessions, watermark, processed>>

vars == <<log, uniq, pc, ctx, cmds, tx, stale, nsub, mvcc, clock, out, executions,
          sessions, watermark, processed>>

\* ------------------------------------------------------------------ helpers
MaxOf(S) == CHOOSE m \in S : \A x \in S : x <= m

\* A field stored as the caller wrote it.
ToLowerSkipped(s) == s

\* strings.ToLower on the fields in use.
ToLower(s) ==
  CASE s = "Bob" -> "bob"
    [] s = "BOB" -> "bob"
    [] OTHER -> s

\* A serialization that runs on a nil payload too and stores JSON null.
MarshalNilAsJSON(payload) == Val(<<"json", payload>>)

\* json.Marshal of the payload; a nil payload leaves Data nil (NULL).
Marshal(payload) == IF payload = Nil THEN NULL ELSE Val(<<"json", payload>>)

\* Sequence.Scan: a NULL column scans as 0.
ScanSequence(col) == IF col = NULL THEN 0 ELSE Get(col)

\* COALESCE(col, d)
Coalesce(col, d) == IF col = NULL THEN d ELSE Get(col)

\* The rows a unique-constraint table can hold.
Fields == {"Bob", "bob", "BOB"}
UCRows ==
  [unique_type : UniqueTypes, unique_field : Fields, instance_id : CtxInstances]
UCRow(t, f, i) == [unique_type |-> t, unique_field |-> f, instance_id |-> i]
EmptyTable == [r \in UCRows |-> 0]

\* ------------------------------------------------------------------ crdbInsert
\* previous_data.agg_type without its instance_id condition.
AggTypeSeqAnyInstance(view, typ, inst) ==
  LET S == {view[j].event_sequence :
              j \in {k \in DOMAIN view : view[k].aggregate_type = typ}}
  IN IF S = {} THEN NULL ELSE Val(MaxOf(S))

\* previous_data.agg_type: MAX(event_sequence) over the events of the
\* aggregate type in the instance; NULL when there is none.
AggTypeSeq(view, typ, inst) ==
  LET S == {view[j].event_sequence :
              j \in {k \in DOMAIN view : /\ view[k].aggregate_type = typ
                                         /\ view[k].instance_id = inst}}
  IN IF S = {} THEN NULL ELSE Val(MaxOf(S))

\* previous_data.agg with the aggregate_id condition left out.
AggLatestAnyID(view, typ, id, inst) ==
  LET K == {k \in DOMAIN view : /\ view[k].aggregate_type = typ
                                /\ view[k].instance_id = inst}
  IN IF K = {} THEN NULL
     ELSE Val(view[CHOOSE j \in K :
                     \A i \in K : view[i].event_sequence <= view[j].event_sequence])

\* previous_data.agg with the instance_id condition left out.
AggLatestAnyInstance(view, typ, id, inst) ==
  LET K == {k \in DOMAIN view : /\ view[k].aggregate_type = typ
                                /\ view[k].aggregate_id = id}
  IN IF K = {} THEN NULL
     ELSE Val(view[CHOOSE j \in K :
                     \A i \in K : view[i].event_sequence <= view[j].event_sequence])

\* previous_data.agg: the aggregate's row of highest event_sequence
\* (ORDER BY event_sequence DESC LIMIT 1); no row when the aggregate is new.
AggLatest(view, typ, id, inst) ==
  LET K == {k \in DOMAIN view : /\ view[k].aggregate_type = typ
                                /\ view[k].aggregate_id = id
                                /\ view[k].instance_id = inst}
  IN IF K = {} THEN NULL
     ELSE Val(view[CHOOSE j \in K :
                     \A i \in K : view[i].event_sequence <= view[j].event_sequence])

\* The statement with $8 in place of COALESCE(resource_owner, $8).
crdbInsertDeclaredOwner(view, e) ==
  LET agg == AggLatest(view, e.typ, e.id, e.inst)
      agg_seq == IF agg = NULL THEN NULL ELSE Val(Get(agg).event_sequence)
  IN [event_type |-> e.etyp,
      aggregate_type |-> e.typ,
      aggregate_id |-> e.id,
      creation_date |-> e.now,
      event_data |-> e.data,
      resource_owner |-> e.owner,
      instance_id |-> e.inst,
      event_sequence |-> Coalesce(agg_seq, 0) + 1,
      previous_aggregate_sequence |-> agg_seq,
      previous_aggregate_type_sequence |-> AggTypeSeq(view, e.typ, e.inst)]

\* The row the statement inserts, given the rows the transaction sees.
\* e carries the statement's arguments $1, $2, $3, $5, $8 and $9, and what
\* statement_timestamp() returns for the statement.
crdbInsert(view, e) ==
  LET agg_type_seq == AggTypeSeq(view, e.typ, e.inst)
      agg == AggLatest(view, e.typ, e.id, e.inst)
      agg_seq == IF agg = NULL THEN NULL ELSE Val(Get(agg).event_sequence)
      agg_ro == IF agg = NULL THEN NULL ELSE Val(Get(agg).resource_owner)
  IN [event_type |-> e.etyp,
      aggregate_type |-> e.typ,
      aggregate_id |-> e.id,
      creation_date |-> e.now,
      event_data |-> e.data,
      resource_owner |-> Coalesce(agg_ro, e.owner),
      instance_id |-> e.inst,
      event_sequence |-> Coalesce(agg_seq, 0) + 1,
      previous_aggregate_sequence |-> agg_seq,
      previous_aggregate_type_sequence |-> agg_type_seq]

\* ------------------------------------------------------------------ unique constraints
\* The unique index of eventstore.unique_constraints.
UniqueIndexKey(r) == <<r.instance_id, r.unique_type, r.unique_field>>

uniqueInsert(tbl, row) == [tbl EXCEPT ![row] = @ + 1]

\* uniqueDelete without its unique_type condition.
uniqueDeleteAnyType(tbl, t, f, i) ==
  [r \in UCRows |->
     IF r.unique_field = f /\ r.instance_id = i THEN 0 ELSE tbl[r]]

uniqueDelete(tbl, t, f, i) ==
  [r \in UCRows |->
     IF r.unique_type = t /\ r.unique_field = f /\ r.instance_id = i
     THEN 0 ELSE tbl[r]]

\* uniqueDeleteInstance without its WHERE clause.
uniqueDeleteInstanceAll(tbl, i) == [r \in UCRows |-> 0]

uniqueDeleteInstance(tbl, i) ==
  [r \in UCRows |-> IF r.instance_id = i THEN 0 ELSE tbl[r]]

\* The SQLSTATE tx.ExecContext(uniqueInsert) ends with: a storage fault, the
\* index refusing the row (unique_violation), or success.
ExecUniqueInsert(tbl, row, failed) ==
  IF failed THEN "08006"
  ELSE IF \E r \in UCRows : tbl[r] > 0 /\ UniqueIndexKey(r) = UniqueIndexKey(row)
  THEN "23505"
  ELSE "00000"

\* A check against the wrong SQLSTATE (foreign_key_violation).
isUniqueViolationErrorWrongCode(sqlstate) == sqlstate = "23503"

isUniqueViolationError(sqlstate) == sqlstate = "23505"

\* One statement the transaction executed on the constraint table.
Write(stmt, row) == [stmt |-> stmt, row |-> row]
ApplyWrite(tbl, w) ==
  CASE w.stmt = "uniqueInsert" -> uniqueInsert(tbl, w.row)
    [] w.stmt = "uniqueDelete" ->
         uniqueDelete(tbl, w.row.unique_type, w.row.unique_field, w.row.instance_id)
    [] w.stmt = "uniqueDeleteInstance" -> uniqueDeleteInstance(tbl, w.row.instance_id)

RECURSIVE ApplyWrites(_, _)
ApplyWrites(tbl, ws) ==
  IF ws = <<>> THEN tbl ELSE ApplyWrites(ApplyWrite(tbl, Head(ws)), Tail(ws))

\* The loop of handleUniqueConstraints from the j-th constraint on, on the
\* table as the transaction sees it; ws are the statements executed so far.
RECURSIVE UniqueConstraintLoop(_, _, _, _, _, _)
UniqueConstraintLoop(tbl, ws, c, ucs, j, fault) ==
  IF j > Len(ucs) THEN [table |-> tbl, writes |-> ws, err |-> NoError]
  ELSE
    LET uc == ucs[j]
        field == ToLower(uc.unique_field)
        row == UCRow(uc.unique_type, field, c)
        failed == fault = Fault("uc", j)
        sqlstate == ExecUniqueInsert(tbl, row, failed)
    IN CASE uc.action = "Add" ->
              IF sqlstate # "00000"
              THEN [table |-> tbl, writes |-> ws,
                    err |-> IF isUniqueViolationError(sqlstate)
                            THEN ThrowAlreadyExists(uc.msg)
                            ELSE ThrowInternal("unable to create unique constraint")]
              ELSE UniqueConstraintLoop(uniqueInsert(tbl, row),
                     Append(ws, Write("uniqueInsert", row)), c, ucs, j + 1, fault)
         [] uc.action = "Remove" ->
              IF failed
              THEN [table |-> tbl, writes |-> ws,
                    err |-> ThrowInternal("unable to remove unique constraint")]
              ELSE UniqueConstraintLoop(uniqueDelete(tbl, uc.unique_type, field, c),
                     Append(ws, Write("uniqueDelete", row)), c, ucs, j + 1, fault)
         [] uc.action = "InstanceRemove" ->
              IF failed
              THEN [table |-> tbl, writes |-> ws,
                    err |-> ThrowInternal("unable to remove unique constraints of instance")]
              ELSE UniqueConstraintLoop(uniqueDeleteInstance(tbl, c),
                     Append(ws, Write("uniqueDeleteInstance", UCRow("", "", c))),
                     c, ucs, j + 1, fault)

\* The constraints' statements executed last declared first.
handleUniqueConstraintsReversed(tbl, c, ucs, fault) ==
  IF Len(ucs) = 0 THEN [table |-> tbl, writes |-> <<>>, err |-> NoError]
  ELSE UniqueConstraintLoop(tbl, <<>>, c,
         [j \in DOMAIN ucs |-> ucs[Len(ucs) + 1 - j]], 1, fault)

\* CRDB.handleUniqueConstraints: nothing to do without constraints,
\* otherwise the loop over them in the order they were declared.
handleUniqueConstraints(tbl, c, ucs, fault) ==
  IF Len(ucs) = 0 THEN [table |-> tbl, writes |-> <<>>, err |-> NoError]
  ELSE UniqueConstraintLoop(tbl, <<>>, c, ucs, 1, fault)

\* ------------------------------------------------------------------ Push
\* events = make([]eventstore.Event, len(commands)): every slot nil.
NilEvent == [nil |-> TRUE]

\* command.Aggregate().InstanceID, set from the context when it is empty.
InstanceOf(cmd, c) == IF cmd.inst = "" THEN c ELSE cmd.inst

\* The repository.Event of a command after the Scan of the inserted row.
ScanEvent(cmd, row) ==
  [Typ |-> cmd.etyp,
   Data |-> Marshal(cmd.payload),
   AggregateID |-> cmd.id,
   AggregateType |-> cmd.typ,
   Seq |-> row.event_sequence,
   CreationDate |-> row.creation_date,
   PreviousAggregateSequence |-> ScanSequence(row.previous_aggregate_sequence),
   PreviousAggregateTypeSequence |-> ScanSequence(row.previous_aggregate_type_sequence),
   ResourceOwner |-> row.resource_owner,
   InstanceID |-> row.instance_id]

\* Statements that read the committed rows only, as they would on the
\* connection pool instead of the transaction.
TxViewCommittedOnly(snap, rows) == snap

\* The rows a statement of a transaction reads: the committed rows as of the
\* transaction's start, and the rows the transaction inserted before.
TxView(snap, rows) == snap \o rows

\* The loop over the commands from the i-th on. snap are the committed rows
\* the transaction reads, st.rows the rows it inserted itself.
RECURSIVE CommandLoop(_, _, _, _, _, _, _)
CommandLoop(snap, st, c, cs, i, fault, now) ==
  IF i > Len(cs) THEN st
  ELSE
    LET command == cs[i]
        e == [etyp |-> command.etyp, typ |-> command.typ, id |-> command.id,
              data |-> Marshal(command.payload), owner |-> command.owner,
              inst |-> InstanceOf(command, c), now |-> now + Len(st.rows)]
        row == crdbInsert(TxView(snap, st.rows), e)
    IN IF command.payload = Unmarshalable
       THEN [st EXCEPT !.err = MarshalError]
       ELSE IF fault = Fault("insert", i)
       THEN [st EXCEPT !.err = ThrowInternal("unable to create event")]
       ELSE CommandLoop(snap,
              [rows |-> Append(st.rows, row),
               events |-> [st.events EXCEPT ![i] = ScanEvent(command, row)],
               uniqueConstraints |-> st.uniqueConstraints \o command.ucs,
               err |-> NoError],
              c, cs, i + 1, fault, now)

\* The closure Push hands to crdb.ExecuteTx, run on the committed tables the
\* transaction reads: the rows and constraint statements it wrote, the events
\* slice it filled and the error it returned.
PushClosure(snap, tbl, c, cs, fault, now) ==
  LET st == CommandLoop(snap,
              [rows |-> <<>>, events |-> [i \in 1..Len(cs) |-> NilEvent],
               uniqueConstraints |-> <<>>, err |-> NoError],
              c, cs, 1, fault, now)
      uc == handleUniqueConstraints(tbl, c, st.uniqueConstraints, fault)
  IN IF st.err # NoError
     THEN [rows |-> st.rows, writes |-> <<>>, events |-> st.events, err |-> st.err]
     ELSE [rows |-> st.rows, writes |-> uc.writes, events |-> st.events, err |-> uc.err]

\* The unique constraints of all commands, in submission order.
RECURSIVE AllUniqueConstraints(_)
AllUniqueConstraints(cs) ==
  IF cs = <<>> THEN <<>> ELSE Head(cs).ucs \o AllUniqueConstraints(Tail(cs))

\* The storage faults one run of the closure over cs can meet.
Faults(cs) ==
  {NoFault} \cup {Fault("insert", k) : k \in 1..Len(cs)}
            \cup {Fault("uc", k) : k \in 1..Len(AllUniqueConstraints(cs))}

\* ------------------------------------------------------------------ transactions
EmptyTx == [rows |-> <<>>, writes |-> <<>>, events |-> <<>>, err |-> NoError,
            fault |-> NoFault]

\* What the closure of caller q read: the events of an aggregate type in an
\* instance (both subqueries of crdbInsert), and the constraint rows its
\* statements addressed.
ReadsEvents(q) ==
  {<<cmds[q][i].typ, InstanceOf(cmds[q][i], ctx[q])>> : i \in DOMAIN tx[q].rows}

ReadsConstraints(q) ==
  {r \in UCRows :
     \E k \in DOMAIN tx[q].writes :
       LET w == tx[q].writes[k]
       IN IF w.stmt = "uniqueDeleteInstance"
          THEN r.instance_id = w.row.instance_id
          ELSE UniqueIndexKey(r) = UniqueIndexKey(w.row)}

\* A store that never invalidates a transaction over the events it read.
OverwritesConstraintsOnly(q, newRows, oldTbl, newTbl) ==
  \E r \in ReadsConstraints(q) : oldTbl[r] # newTbl[r]

\* Serializable isolation: a commit that inserted events into a range q read,
\* or changed a constraint row q addressed, invalidates q's transaction.
Overwrites(q, newRows, oldTbl, newTbl) ==
  \/ \E k \in DOMAIN newRows :
       <<newRows[k].aggregate_type, newRows[k].instance_id>> \in ReadsEvents(q)
  \/ \E r \in ReadsConstraints(q) : oldTbl[r] # newTbl[r]

\* A rollback that leaves the rows the failed transaction inserted.
RollbackKeepsRows(committed, rows) == committed \o rows

\* The committed log after a transaction that wrote rows was rolled back.
Rollback(committed, rows) == committed

\* The timestamp the store gives the rows of the transaction that commits
\* next: later than that of every committed row.
CommitTimestamp(stamps) == IF stamps = <<>> THEN 1 ELSE stamps[Len(stamps)] + 1

\* No read has returned yet; an empty projection table.
NoResult == [op |-> "none"]
NoRows == {}

\* errors.Is(err, &caos_errs.CaosError{})
IsCaosError(err) == err.kind \in {"Internal", "AlreadyExists"}

\* Push handing back the error of crdb.ExecuteTx as it is.
WrapErrorSkipped(err) == err

\* The end of Push: an error that is no CaosError is wrapped into an
\* internal error.
WrapError(err) ==
  IF err # NoError /\ ~IsCaosError(err)
  THEN ThrowInternal("unable to store events")
  ELSE err

\* A caller calls Push(ctx, commands...).
Push(p, c, cs) ==
  /\ pc[p] \in {"idle", "ret"}
  /\ pc' = [pc EXCEPT ![p] = "run"]
  /\ ctx' = [ctx EXCEPT ![p] = c]
  /\ cmds' = [cmds EXCEPT ![p] = cs]
  /\ tx' = [tx EXCEPT ![p] = EmptyTx]
  /\ stale' = [stale EXCEPT ![p] = FALSE]
  /\ nsub' = nsub + Len(cs)
  /\ UNCHANGED <<log, uniq, mvcc, clock, readSide>>

\* crdb.ExecuteTx begins a transaction and runs the closure; an error of the
\* closure rolls the transaction back and is what Push returns.
RunTx(p, fault) ==
  /\ pc[p] = "run"
  /\ LET r == IF fault = Fault("begin", 0)
              THEN [rows |-> <<>>, writes |-> <<>>,
                    events |-> [i \in DOMAIN cmds[p] |-> NilEvent],
                    err |-> DriverError]
              ELSE PushClosure(log, uniq, ctx[p], cmds[p], fault, clock)
     IN IF r.err = NoError
        THEN /\ tx' = [tx EXCEPT ![p] = [rows |-> r.rows, writes |-> r.writes,
                         events |-> r.events, err |-> NoError, fault |-> fault]]
             /\ pc' = [pc EXCEPT ![p] = "commit"]
             /\ log' = log
             /\ clock' = clock + Len(r.rows)
        ELSE /\ tx' = [tx EXCEPT ![p] = [rows |-> <<>>, writes |-> <<>>,
                         events |-> r.events, err |-> WrapError(r.err),
                         fault |-> fault]]
             /\ pc' = [pc EXCEPT ![p] = "ret"]
             /\ log' = Rollback(log, r.rows)
             /\ clock' = clock + Len(r.rows)
  /\ stale' = [stale EXCEPT ![p] = FALSE]
  /\ UNCHANGED <<uniq, ctx, cmds, nsub, mvcc, readSide>>

\* The transaction commits: its rows and constraint statements become visible
\* at once, and the transactions that read what it wrote are invalidated.
CommitTx(p) ==
  /\ pc[p] = "commit"
  /\ ~stale[p]
  /\ log' = log \o tx[p].rows
  /\ mvcc' = mvcc \o [k \in DOMAIN tx[p].rows |-> CommitTimestamp(mvcc)]
  /\ uniq' = ApplyWrites(uniq, tx[p].writes)
  /\ stale' = [q \in Procs |->
                 IF q # p /\ pc[q] = "commit"
                 THEN stale[q] \/ Overwrites(q, tx[p].rows, uniq, uniq')
                 ELSE stale[q]]
  /\ pc' = [pc EXCEPT ![p] = "ret"]
  /\ UNCHANGED <<ctx, cmds, tx, nsub, clock, readSide>>

\* COMMIT fails with an error that is not retryable: the transaction is
\* rolled back and Push returns the error, wrapped.
CommitFails(p) ==
  /\ pc[p] = "commit"
  /\ pc' = [pc EXCEPT ![p] = "ret"]
  /\ tx' = [tx EXCEPT ![p] = [rows |-> <<>>, writes |-> <<>>,
                              events |-> tx[p].events,
                              err |-> WrapError(DriverError),
                              fault |-> Fault("commit", 0)]]
  /\ stale' = [stale EXCEPT ![p] = FALSE]
  /\ UNCHANGED <<log, uniq, ctx, cmds, nsub, clock, mvcc, readSide>>

\* An ExecuteTx that hands the store's retryable error to the caller.
RetryTxPropagated(p) ==
  /\ pc[p] = "commit"
  /\ stale[p]
  /\ pc' = [pc EXCEPT ![p] = "ret"]
  /\ tx' = [tx EXCEPT ![p] = [rows |-> <<>>, writes |-> <<>>,
                              events |-> tx[p].events,
                              err |-> [kind |-> "Conflict", msg |-> "40001"],
                              fault |-> NoFault]]
  /\ stale' = [stale EXCEPT ![p] = FALSE]
  /\ UNCHANGED <<log, uniq, ctx, cmds, nsub, clock, mvcc, readSide>>

\* The store aborts an invalidated transaction with a retryable error and
\* crdb.ExecuteTx runs the closure again in a new transaction.
RetryTx(p) ==
  /\ pc[p] = "commit"
  /\ stale[p]
  /\ pc' = [pc EXCEPT ![p] = "run"]
  /\ tx' = [tx EXCEPT ![p] = EmptyTx]
  /\ stale' = [stale EXCEPT ![p] = FALSE]
  /\ UNCHANGED <<log, uniq, ctx, cmds, nsub, clock, mvcc, readSide>>

Init ==
  /\ log = <<>>
  /\ uniq = EmptyTable
  /\ pc = [p \in Procs |-> "idle"]
  /\ ctx = [p \in Procs |-> "i1"]
  /\ cmds = [p \in Procs |-> <<>>]
  /\ tx = [p \in Procs |-> EmptyTx]
  /\ stale = [p \in Procs |-> FALSE]
  /\ nsub = 0
  /\ mvcc = <<>>
  /\ out = NoResult
  /\ clock = 1
  /\ executions = NoRows
  /\ sessions = NoRows
  /\ watermark = [P \in {"projections.executions", "projections.sessions4"} |->
                   [i \in CtxInstances |-> 0]]
  /\ processed = [P \in {"projections.executions", "projections.sessions4"} |-> <<>>]

\* The callers P push batches of the commands C, at most max commands in all.
NextOver(P, C, max) ==
  \E p \in P :
    \/ \E c \in CtxInstances, cs \in Batches(C) :
         nsub + Len(cs) <= max /\ Push(p, c, cs)
    \/ \E fault \in Faults(cmds[p]) : RunTx(p, fault)
    \/ CommitTx(p)
    \/ RetryTx(p)

\* Concurrent callers appending events.
Next == NextOver(Procs, SeqCmds, MaxCmds)
Spec == Init /\ [][Next]_vars

\* Concurrent callers whose commands declare unique constraints.
NextUC == NextOver(Procs, UCCmds, MaxCmds)
SpecUC == Init /\ [][NextUC]_vars

\* One caller, one Push at a time: no transaction is ever invalidated.
NextSerial ==
  \/ \E c \in CtxInstances, cs \in Batches(UCCmds) :
       nsub + Len(cs) <= MaxSerialCmds /\ Push("p1", c, cs)
  \/ \E fault \in Faults(cmds["p1"]) : RunTx("p1", fault)
  \/ CommitTx("p1")
SpecSerial == Init /\ [][NextSerial]_vars

\* Two Push calls of one command each, submitted at once for one aggregate
\* instance that has no event yet; no storage fault occurs.
Init3 ==
  /\ log = <<>>
  /\ uniq = EmptyTable
  /\ pc = [p \in Procs |-> "run"]
  /\ ctx \in [Procs -> CtxInstances]
  /\ cmds \in [Procs -> {<<c>> : c \in SeqCmds}]
  /\ \A p, q \in Procs :
       /\ cmds[p][1].typ = cmds[q][1].typ
       /\ cmds[p][1].id = cmds[q][1].id
       /\ InstanceOf(cmds[p][1], ctx[p]) = InstanceOf(cmds[q][1], ctx[q])
  /\ tx = [p \in Procs |-> EmptyTx]
  /\ stale = [p \in Procs |-> FALSE]
  /\ nsub = Cardinality(Procs)
  /\ mvcc = <<>>
  /\ out = NoResult
  /\ clock = 1
  /\ executions = NoRows
  /\ sessions = NoRows
  /\ watermark = [P \in {"projections.executions", "projections.sessions4"} |->
                   [i \in CtxInstances |-> 0]]
  /\ processed = [P \in {"projections.executions", "projections.sessions4"} |-> <<>>]

Next3 ==
  \E p \in Procs :
    \/ RunTx(p, NoFault)
    \/ CommitTx(p)
    \/ RetryTx(p)

\* Every caller's goroutine keeps running: its closure runs, its commit is
\* attempted, and crdb.ExecuteTx retries an aborted transaction.
Fair3 ==
  \A p \in Procs :
    /\ WF_vars(RunTx(p, NoFault))
    /\ WF_vars(CommitTx(p))
    /\ WF_vars(RetryTx(p))

Spec3 == Init3 /\ [][Next3]_vars /\ Fair3

\* One caller appending events, one Push at a time.
NextAppend ==
  \/ \E c \in CtxInstances, cs \in Batches(SeqCmds) :
       nsub + Len(cs) <= MaxSerialCmds /\ Push("p1", c, cs)
  \/ \E fault \in Faults(cmds["p1"]) : RunTx("p1", fault)
  \/ CommitTx("p1")
SpecAppend == Init /\ [][NextAppend]_vars

\* Commands with a unique constraint, and one whose payload cannot be
\* serialized.
ErrCmds ==
  UCCmds \cup {Cmd("", "org", "a1", "ro1", "changed", Unmarshalable, <<>>)}

\* One caller whose Push can fail at every step: the serialization of a
\* payload, any statement, the begin and the commit of the transaction.
NextErr ==
  \/ \E c \in CtxInstances, cs \in Batches(ErrCmds) :
       nsub + Len(cs) <= MaxSerialCmds /\ Push("p1", c, cs)
  \/ \E fault \in Faults(cmds["p1"]) \cup {Fault("begin", 0)} : RunTx("p1", fault)
  \/ CommitTx("p1")
  \/ CommitFails("p1")
SpecErr == Init /\ [][NextErr]_vars

\* ------------------------------------------------------------------ Filter
\* CRDB.columnName: the column of a repository.Field.
columnName(col) ==
  CASE col = "FieldAggregateID" -> "aggregate_id"
    [] col = "FieldAggregateType" -> "aggregate_type"
    [] col = "FieldSequence" -> "event_sequence"
    [] col = "FieldResourceOwner" -> "resource_owner"
    [] col = "FieldInstanceID" -> "instance_id"
    [] col = "FieldEventType" -> "event_type"
    [] col = "FieldEventData" -> "event_data"
    [] col = "FieldCreationDate" -> "creation_date"
    [] OTHER -> ""

\* CRDB.operation: the SQL comparison of a repository.Operation.
operation(op) ==
  CASE op \in {"OperationEquals", "OperationIn"} -> "="
    [] op = "OperationGreater" -> ">"
    [] op = "OperationLess" -> "<"
    [] op = "OperationNotIn" -> "<>"
    [] OTHER -> ""

\* CRDB.conditionFormat: "%s %s ANY(?)", "%s %s ALL(?)" or "%s %s ?".
conditionFormat(op) ==
  CASE op = "OperationIn" -> "ANY"
    [] op = "OperationNotIn" -> "ALL"
    [] OTHER -> "ONE"

\* A filter of a search query, and the condition it stands for on a row.
NewFilter(field, value, op) == [field |-> field, value |-> value, operation |-> op]

Condition(row, f) ==
  LET v == row[columnName(f.field)]
      cmp == operation(f.operation)
  IN CASE conditionFormat(f.operation) = "ANY" -> \E x \in f.value : v = x
       [] conditionFormat(f.operation) = "ALL" -> \A x \in f.value : v # x
       [] OTHER -> \/ cmp = "=" /\ v = f.value
                   \/ cmp = ">" /\ v > f.value
                   \/ cmp = "<" /\ v < f.value

\* A search query: filters that all have to hold, and the ordering flag.
SearchQuery(filters, desc) == [filters |-> filters, desc |-> desc]

\* CRDB.eventQuery: the columns read of the k-th stored row; the creation
\* date is the row's MVCC timestamp.
eventQuery(view, stamps, k) ==
  [creation_date |-> stamps[k],
   event_type |-> view[k].event_type,
   event_sequence |-> view[k].event_sequence,
   previous_aggregate_sequence |-> view[k].previous_aggregate_sequence,
   previous_aggregate_type_sequence |-> view[k].previous_aggregate_type_sequence,
   event_data |-> view[k].event_data,
   resource_owner |-> view[k].resource_owner,
   instance_id |-> view[k].instance_id,
   aggregate_type |-> view[k].aggregate_type,
   aggregate_id |-> view[k].aggregate_id]

\* An ordering that puts the later row first whatever desc says.
orderByEventSequenceReversed(desc, a, b) ==
  \/ a.creation_date > b.creation_date
  \/ a.creation_date = b.creation_date /\ a.event_sequence >= b.event_sequence

\* An ordering by event_sequence alone.
orderBySequenceOnly(desc, a, b) ==
  IF desc THEN a.event_sequence >= b.event_sequence
  ELSE a.event_sequence <= b.event_sequence

\* CRDB.orderByEventSequence: row a may stand before row b under
\* ORDER BY crdb_internal_mvcc_timestamp, event_sequence (DESC for both when
\* desc).  Rows equal in both columns may come in either order.
orderByEventSequence(desc, a, b) ==
  IF desc
  THEN \/ a.creation_date > b.creation_date
       \/ a.creation_date = b.creation_date /\ a.event_sequence >= b.event_sequence
  ELSE \/ a.creation_date < b.creation_date
       \/ a.creation_date = b.creation_date /\ a.event_sequence <= b.event_sequence

\* The stored rows a query selects.
Matching(view, stamps, q) ==
  {k \in DOMAIN view : \A f \in q.filters : Condition(eventQuery(view, stamps, k), f)}

\* The result lists the store may answer a query with: the selected rows,
\* each once, in an order the ORDER BY clause allows.
QueryResults(view, stamps, q) ==
  LET K == Matching(view, stamps, q)
      n == Cardinality(K)
      Orders == {o \in [1..n -> K] : \A i, j \in 1..n : i # j => o[i] # o[j]}
      Rows(o) == [i \in 1..n |-> eventQuery(view, stamps, o[i])]
  IN {Rows(o) : o \in {o \in Orders :
        \A i \in 1..(n - 1) :
          orderByEventSequence(q.desc, eventQuery(view, stamps, o[i]),
                               eventQuery(view, stamps, o[i + 1]))}}

\* The error of a failed query, as query() returns it.
QueryFailed == [kind |-> "Internal", msg |-> "unable to filter events"]

\* A Filter that consumes: it drops as many of the latest rows as it returns.
FilterConsuming(q, events, failed) ==
  /\ out' = IF failed
            THEN [op |-> "Filter", query |-> q, events |-> <<>>, err |-> QueryFailed]
            ELSE [op |-> "Filter", query |-> q, events |-> events, err |-> NoError]
  /\ log' = IF failed THEN log ELSE SubSeq(log, 1, Len(log) - Len(events))
  /\ mvcc' = IF failed THEN mvcc ELSE SubSeq(mvcc, 1, Len(mvcc) - Len(events))
  /\ UNCHANGED <<uniq, pc, ctx, cmds, tx, stale, nsub, clock, projections>>

\* CRDB.Filter: the events the query returns, or nil and the query's error.
Filter(q, events, failed) ==
  /\ out' = IF failed
            THEN [op |-> "Filter", query |-> q, events |-> <<>>, err |-> QueryFailed]
            ELSE [op |-> "Filter", query |-> q, events |-> events, err |-> NoError]
  /\ UNCHANGED <<log, uniq, pc, ctx, cmds, tx, stale, nsub, clock, mvcc, projections>>

\* CRDB.maxSequenceQuery: MAX(crdb_internal_mvcc_timestamp) of the selected
\* rows; NULL scans into the zero time.
maxSequenceQuery(view, stamps, q) ==
  LET K == Matching(view, stamps, q)
  IN IF K = {} THEN 0 ELSE MaxOf({stamps[k] : k \in K})

\* CRDB.LatestSequence
LatestSequence(q, failed) ==
  /\ out' = IF failed
            THEN [op |-> "LatestSequence", query |-> q, time |-> 0, err |-> QueryFailed]
            ELSE [op |-> "LatestSequence", query |-> q,
                  time |-> maxSequenceQuery(log, mvcc, q), err |-> NoError]
  /\ UNCHANGED <<log, uniq, pc, ctx, cmds, tx, stale, nsub, clock, mvcc, projections>>

\* CRDB.instanceIDsQuery: SELECT DISTINCT instance_id of the selected rows
\* (their order is left open: the ids are kept as a set).
instanceIDsQuery(view, stamps, q) ==
  {view[k].instance_id : k \in Matching(view, stamps, q)}

\* CRDB.InstanceIDs
InstanceIDs(q, failed) ==
  /\ out' = IF failed
            THEN [op |-> "InstanceIDs", query |-> q, ids |-> {}, err |-> QueryFailed]
            ELSE [op |-> "InstanceIDs", query |-> q,
                  ids |-> instanceIDsQuery(log, mvcc, q), err |-> NoError]
  /\ UNCHANGED <<log, uniq, pc, ctx, cmds, tx, stale, nsub, clock, mvcc, projections>>

\* ------------------------------------------------------------------ OrgByID
ThrowNotFound(msg) == [kind |-> "NotFound", msg |-> msg]

\* projection.Org.SearchQuery: the events of org id in the instance, in
\* ascending order.
OrgSearchQuery(id, instance) ==
  SearchQuery({NewFilter("FieldInstanceID", instance, "OperationEquals"),
               NewFilter("FieldAggregateType", "org", "OperationEquals"),
               NewFilter("FieldAggregateID", id, "OperationEquals")}, FALSE)

\* mapOrg(org) after org.Reduce(events): the org and the events it was
\* reduced from.
mapOrg(id, events) == [ID |-> id, reduced |-> events]

\* OrgByID without the check of len(events).
OrgByIDUnchecked(c, id, events, failed) ==
  /\ out' = [op |-> "OrgByID", instance |-> c, id |-> id,
             events |-> IF failed THEN <<>> ELSE events,
             org |-> IF failed THEN Nil ELSE mapOrg(id, events),
             err |-> IF failed THEN QueryFailed ELSE NoError]
  /\ UNCHANGED <<log, uniq, pc, ctx, cmds, tx, stale, nsub, clock, mvcc, projections>>

\* Queries.OrgByID for a context of instance c; events is what Filter
\* returns for the org's search query.
OrgByID(c, id, events, failed) ==
  /\ out' = [op |-> "OrgByID", instance |-> c, id |-> id,
             events |-> IF failed THEN <<>> ELSE events,
             org |-> IF failed \/ Len(events) = 0 THEN Nil ELSE mapOrg(id, events),
             err |-> IF failed THEN QueryFailed
                     ELSE IF Len(events) = 0 THEN ThrowNotFound("Errors.Org.NotFound")
                     ELSE NoError]
  /\ UNCHANGED <<log, uniq, pc, ctx, cmds, tx, stale, nsub, clock, mvcc, projections>>

\* ------------------------------------------------------------------ projections
ExecutionTable == "projections.executions"
SessionsProjectionTable == "projections.sessions4"
Projections == {ExecutionTable, SessionsProjectionTable}

\* Init(): the columns of a projection's table.
Columns(table) ==
  IF table = ExecutionTable
  THEN {"id", "creation_date", "change_date", "resource_owner", "instance_id",
        "sequence", "targets", "includes"}
  ELSE {"id", "creation_date", "change_date", "sequence", "state",
        "resource_owner", "instance_id", "creator", "user_id",
        "user_checked_at", "password_checked_at", "intent_checked_at",
        "webauthn_checked_at", "webauthn_user_verified", "totp_checked_at",
        "metadata", "token_id"}

\* Init(): handler.NewPrimaryKey
PrimaryKey(table) ==
  IF table = ExecutionTable THEN {"instance_id", "resource_owner", "id"}
  ELSE {"instance_id", "id"}

\* The runtime type the event mapper gives an event of a type, and a type
\* none of the reducers expects.
BaseEvent == "*eventstore.BaseEvent"
GoType(e) ==
  LET t == <<e.aggregate_type, e.event_type>>
  IN CASE t = <<"execution", "execution.set">> -> "*exec.SetEvent"
       [] t = <<"execution", "execution.removed">> -> "*exec.RemovedEvent"
       [] t = <<"instance", "instance.removed">> -> "*instance.InstanceRemovedEvent"
       [] t = <<"session", "session.added">> -> "*session.AddedEvent"
       [] t = <<"session", "session.user.checked">> -> "*session.UserCheckedEvent"
       [] t = <<"session", "session.password.checked">> -> "*session.PasswordCheckedEvent"
       [] t = <<"session", "session.intent.checked">> -> "*session.IntentCheckedEvent"
       [] t = <<"session", "session.webAuthN.checked">> -> "*session.WebAuthNCheckedEvent"
       [] t = <<"session", "session.totp.checked">> -> "*session.TOTPCheckedEvent"
       [] t = <<"session", "session.token.set">> -> "*session.TokenSetEvent"
       [] t = <<"session", "session.metadata.set">> -> "*session.MetadataSetEvent"
       [] t = <<"session", "session.terminated">> -> "*session.TerminateEvent"
       [] t = <<"user", "user.human.password.changed">> -> "*user.HumanPasswordChangedEvent"
       [] OTHER -> BaseEvent

\* The payload of an event as its fields are unmarshalled from event_data:
\* the text fields (UserID, TokenID, Metadata, User), CheckedAt and
\* UserVerified.
Unmarshal(data) == IF data = NULL THEN "" ELSE Get(data)[2]
CheckedAt(data) == IF Unmarshal(data) = "t9" THEN 9 ELSE 0
UserVerified(data) == Unmarshal(data) = "verified"

\* handler.NewCond, handler.NewLessThanCond
NewCond(col, value) == [col |-> col, op |-> "=", value |-> value]
NewLessThanCond(col, value) == [col |-> col, op |-> "<", value |-> value]

\* What a reducer returns: a statement and no error, or no statement and an
\* invalid-argument error.
NoStatement == [kind |-> "nil"]
Statement(stmt) == [stmt |-> stmt, err |-> NoError]
ThrowInvalidArgument(id) == [kind |-> "InvalidArgument", msg |-> id]
WrongEventType(id) == [stmt |-> NoStatement, err |-> ThrowInvalidArgument(id)]

handlerNewCreateStatement(table, cols) ==
  Statement([kind |-> "create", table |-> table, cols |-> cols])
handlerNewUpsertStatement(table, conflictCols, insertOnly, cols) ==
  Statement([kind |-> "upsert", table |-> table, key |-> conflictCols,
             insertOnly |-> insertOnly, cols |-> cols])
handlerNewUpdateStatement(table, cols, conds) ==
  Statement([kind |-> "update", table |-> table, cols |-> cols, conds |-> conds])
handlerNewDeleteStatement(table, conds) ==
  Statement([kind |-> "delete", table |-> table, conds |-> conds])

\* ---- executionProjection
\* reduceExecutionSet with a creation date written on every upsert.
reduceExecutionSetClobbering(e, shape) ==
  IF shape # "*exec.SetEvent" THEN WrongEventType("HANDL-jiozfjitr5")
  ELSE handlerNewUpsertStatement(ExecutionTable,
         {"instance_id", "resource_owner", "id"}, {},
         [instance_id |-> e.instance_id,
          resource_owner |-> e.resource_owner,
          id |-> e.aggregate_id,
          creation_date |-> e.creation_date,
          change_date |-> e.creation_date,
          sequence |-> e.event_sequence,
          targets |-> e.event_data,
          includes |-> e.event_data])

\* reduceExecutionSet: an upsert on (instance_id, resource_owner, id), the
\* first three columns; creation_date is set on insert only.
reduceExecutionSet(e, shape) ==
  IF shape # "*exec.SetEvent" THEN WrongEventType("HANDL-jiozfjitr5")
  ELSE handlerNewUpsertStatement(ExecutionTable,
         {"instance_id", "resource_owner", "id"}, {"creation_date"},
         [instance_id |-> e.instance_id,
          resource_owner |-> e.resource_owner,
          id |-> e.aggregate_id,
          creation_date |-> e.creation_date,
          change_date |-> e.creation_date,
          sequence |-> e.event_sequence,
          targets |-> e.event_data,
          includes |-> e.event_data])

\* reduceExecutionRemoved with a delete on the id alone.
reduceExecutionRemovedByID(e, shape) ==
  IF shape # "*exec.RemovedEvent" THEN WrongEventType("HANDL-t51ipx55r2")
  ELSE handlerNewDeleteStatement(ExecutionTable, <<NewCond("id", e.aggregate_id)>>)

\* reduceExecutionRemoved without its type assertion.
reduceExecutionRemovedUnchecked(e, shape) ==
  handlerNewDeleteStatement(ExecutionTable,
    <<NewCond("instance_id", e.instance_id),
      NewCond("resource_owner", e.resource_owner),
      NewCond("id", e.aggregate_id)>>)

\* reduceExecutionRemoved: a delete on (instance_id, resource_owner, id).
reduceExecutionRemoved(e, shape) ==
  IF shape # "*exec.RemovedEvent" THEN WrongEventType("HANDL-t51ipx55r2")
  ELSE handlerNewDeleteStatement(ExecutionTable,
         <<NewCond("instance_id", e.instance_id),
           NewCond("resource_owner", e.resource_owner),
           NewCond("id", e.aggregate_id)>>)

\* reduceInstanceRemovedHelper(instanceIDCol): a delete on the instance id
\* column alone; the removed instance is the event's aggregate.
reduceInstanceRemovedHelper(table, instanceIDCol, e, shape) ==
  IF shape # "*instance.InstanceRemovedEvent" THEN WrongEventType("HANDL-instance")
  ELSE handlerNewDeleteStatement(table, <<NewCond(instanceIDCol, e.aggregate_id)>>)

\* ---- sessionProjection
SessionStateActive == "active"
SMSColumnInstanceID == "instance_id"

\* The conditions of the session reducers: the session's id and instance.
SessionConds(e) ==
  <<NewCond("id", e.aggregate_id), NewCond("instance_id", e.instance_id)>>

reduceSessionAdded(e, shape) ==
  IF shape # "*session.AddedEvent" THEN WrongEventType("HANDL-Sfrgf")
  ELSE handlerNewCreateStatement(SessionsProjectionTable,
         [id |-> e.aggregate_id,
          instance_id |-> e.instance_id,
          creation_date |-> e.creation_date,
          change_date |-> e.creation_date,
          resource_owner |-> e.resource_owner,
          state |-> SessionStateActive,
          sequence |-> e.event_sequence,
          creator |-> Unmarshal(e.event_data)])

\* reduceUserChecked as an upsert of the session's row.
reduceUserCheckedUpsert(e, shape) ==
  IF shape # "*session.UserCheckedEvent" THEN WrongEventType("HANDL-saDg5")
  ELSE handlerNewUpsertStatement(SessionsProjectionTable,
         {"instance_id", "id"}, {},
         [id |-> e.aggregate_id,
          instance_id |-> e.instance_id,
          change_date |-> e.creation_date,
          sequence |-> e.event_sequence,
          user_id |-> Val(Unmarshal(e.event_data)),
          user_checked_at |-> Val(CheckedAt(e.event_data))])

reduceUserChecked(e, shape) ==
  IF shape # "*session.UserCheckedEvent" THEN WrongEventType("HANDL-saDg5")
  ELSE handlerNewUpdateStatement(SessionsProjectionTable,
         [change_date |-> e.creation_date,
          sequence |-> e.event_sequence,
          user_id |-> Val(Unmarshal(e.event_data)),
          user_checked_at |-> Val(CheckedAt(e.event_data))],
         SessionConds(e))

\* reducePasswordChecked without the sequence column.
reducePasswordCheckedKeepingSequence(e, shape) ==
  IF shape # "*session.PasswordCheckedEvent" THEN WrongEventType("HANDL-SDgrb")
  ELSE handlerNewUpdateStatement(SessionsProjectionTable,
         [change_date |-> e.creation_date,
          password_checked_at |-> Val(CheckedAt(e.event_data))],
         SessionConds(e))

reducePasswordChecked(e, shape) ==
  IF shape # "*session.PasswordCheckedEvent" THEN WrongEventType("HANDL-SDgrb")
  ELSE handlerNewUpdateStatement(SessionsProjectionTable,
         [change_date |-> e.creation_date,
          sequence |-> e.event_sequence,
          password_checked_at |-> Val(CheckedAt(e.event_data))],
         SessionConds(e))

reduceIntentChecked(e, shape) ==
  IF shape # "*session.IntentCheckedEvent" THEN WrongEventType("HANDL-SDgr2")
  ELSE handlerNewUpdateStatement(SessionsProjectionTable,
         [change_date |-> e.creation_date,
          sequence |-> e.event_sequence,
          intent_checked_at |-> Val(CheckedAt(e.event_data))],
         SessionConds(e))

reduceWebAuthNChecked(e, shape) ==
  IF shape # "*session.WebAuthNCheckedEvent" THEN WrongEventType("HANDL-WieM4")
  ELSE handlerNewUpdateStatement(SessionsProjectionTable,
         [change_date |-> e.creation_date,
          sequence |-> e.event_sequence,
          webauthn_checked_at |-> Val(CheckedAt(e.event_data)),
          webauthn_user_verified |-> Val(UserVerified(e.event_data))],
         SessionConds(e))

reduceTOTPChecked(e, shape) ==
  IF shape # "*session.TOTPCheckedEvent" THEN WrongEventType("HANDL-Oqu8i")
  ELSE handlerNewUpdateStatement(SessionsProjectionTable,
         [change_date |-> e.creation_date,
          sequence |-> e.event_sequence,
          totp_checked_at |-> Val(CheckedAt(e.event_data))],
         SessionConds(e))

reduceTokenSet(e, shape) ==
  IF shape # "*session.TokenSetEvent" THEN WrongEventType("HANDL-SAfd3")
  ELSE handlerNewUpdateStatement(SessionsProjectionTable,
         [change_date |-> e.creation_date,
          sequence |-> e.event_sequence,
          token_id |-> Val(Unmarshal(e.event_data))],
         SessionConds(e))

reduceMetadataSet(e, shape) ==
  IF shape # "*session.MetadataSetEvent" THEN WrongEventType("HANDL-SAfd3")
  ELSE handlerNewUpdateStatement(SessionsProjectionTable,
         [change_date |-> e.creation_date,
          sequence |-> e.event_sequence,
          metadata |-> Val(Unmarshal(e.event_data))],
         SessionConds(e))

reduceSessionTerminated(e, shape) ==
  IF shape # "*session.TerminateEvent" THEN WrongEventType("HANDL-SAftn")
  ELSE handlerNewDeleteStatement(SessionsProjectionTable, SessionConds(e))

\* reducePasswordChanged: the password check of the user's sessions that is
\* older than the change is cleared.
reducePasswordChanged(e, shape) ==
  IF shape # "*user.HumanPasswordChangedEvent" THEN WrongEventType("HANDL-Deg3d")
  ELSE handlerNewUpdateStatement(SessionsProjectionTable,
         [password_checked_at |-> NULL],
         <<NewCond("user_id", Val(e.aggregate_id)),
           NewLessThanCond("password_checked_at", e.creation_date)>>)

\* Reducers() without the registration for the instance aggregate.
ReducersWithoutInstance(P) ==
  IF P = ExecutionTable
  THEN {<<"execution", "execution.set">>, <<"execution", "execution.removed">>}
  ELSE {<<"session", "session.added">>, <<"session", "session.user.checked">>,
        <<"session", "session.password.checked">>,
        <<"session", "session.intent.checked">>,
        <<"session", "session.webAuthN.checked">>,
        <<"session", "session.totp.checked">>,
        <<"session", "session.token.set">>,
        <<"session", "session.metadata.set">>,
        <<"session", "session.terminated">>,
        <<"user", "user.human.password.changed">>}

\* Reducers(): the (aggregate type, event type) pairs a projection has a
\* reducer for.
Reducers(P) ==
  IF P = ExecutionTable
  THEN {<<"execution", "execution.set">>, <<"execution", "execution.removed">>,
        <<"instance", "instance.removed">>}
  ELSE {<<"session", "session.added">>, <<"session", "session.user.checked">>,
        <<"session", "session.password.checked">>,
        <<"session", "session.intent.checked">>,
        <<"session", "session.webAuthN.checked">>,
        <<"session", "session.totp.checked">>,
        <<"session", "session.token.set">>,
        <<"session", "session.metadata.set">>,
        <<"session", "session.terminated">>,
        <<"instance", "instance.removed">>,
        <<"user", "user.human.password.changed">>}

\* A lookup miss taken for a contract violation.
SkipHalting(P) == WrongEventType("HANDL-unregistered")

\* A lookup miss: no statement is applied for the event.
Skip(P) == Statement([kind |-> "none", table |-> P])

\* The reducer registered for the event's (aggregate type, event type) is
\* invoked on the event; a lookup miss is a skip.
Reduce(P, e, shape) ==
  LET t == <<e.aggregate_type, e.event_type>>
  IN IF t \notin Reducers(P) THEN Skip(P)
     ELSE IF P = ExecutionTable
     THEN CASE t[2] = "execution.set" -> reduceExecutionSet(e, shape)
            [] t[2] = "execution.removed" -> reduceExecutionRemoved(e, shape)
            [] OTHER -> reduceInstanceRemovedHelper(ExecutionTable, "instance_id", e, shape)
     ELSE CASE t[2] = "session.added" -> reduceSessionAdded(e, shape)
            [] t[2] = "session.user.checked" -> reduceUserChecked(e, shape)
            [] t[2] = "session.password.checked" -> reducePasswordChecked(e, shape)
            [] t[2] = "session.intent.checked" -> reduceIntentChecked(e, shape)
            [] t[2] = "session.webAuthN.checked" -> reduceWebAuthNChecked(e, shape)
            [] t[2] = "session.totp.checked" -> reduceTOTPChecked(e, shape)
            [] t[2] = "session.token.set" -> reduceTokenSet(e, shape)
            [] t[2] = "session.metadata.set" -> reduceMetadataSet(e, shape)
            [] t[2] = "session.terminated" -> reduceSessionTerminated(e, shape)
            [] t[2] = "user.human.password.changed" -> reducePasswordChanged(e, shape)
            [] OTHER -> reduceInstanceRemovedHelper(SessionsProjectionTable,
                                                    SMSColumnInstanceID, e, shape)

\* ---- handler: statements
\* A condition on a row; a NULL column is less than nothing.
Holds(r, c) ==
  IF c.op = "=" THEN r[c.col] = c.value
  ELSE r[c.col] # NULL /\ Get(r[c.col]) < c.value
Matches(r, conds) == \A k \in DOMAIN conds : Holds(r, conds[k])

\* The row an insert writes: the columns left out are NULL.
NewRow(table, cols) ==
  [c \in Columns(table) |-> IF c \in DOMAIN cols THEN cols[c] ELSE NULL]
SameKey(r, key, cols) == \A c \in key : r[c] = cols[c]
Assign(r, cols, except) ==
  [c \in DOMAIN r |-> IF c \in DOMAIN cols /\ c \notin except THEN cols[c] ELSE r[c]]

DuplicateKey == ThrowInternal("duplicate key value violates unique constraint")
StorageFailure == ThrowInternal("unable to execute statement")

\* A Create that is a plain INSERT: a row with the primary key fails it.
ExecuteCreatePlain(rows, stmt) ==
  IF \E r \in rows : SameKey(r, PrimaryKey(stmt.table), stmt.cols)
  THEN [rows |-> rows, err |-> DuplicateKey]
  ELSE [rows |-> rows \cup {NewRow(stmt.table, stmt.cols)}, err |-> NoError]

\* Create: an insert; a row with the same primary key makes it a no-op.
ExecuteCreate(rows, stmt) ==
  IF \E r \in rows : SameKey(r, PrimaryKey(stmt.table), stmt.cols)
  THEN [rows |-> rows, err |-> NoError]
  ELSE [rows |-> rows \cup {NewRow(stmt.table, stmt.cols)}, err |-> NoError]

\* The projection table after a statement, and the statement's error.
\* Upsert: insert, or update of all columns but those set on insert only.
\* Update and Delete: by the conditions; no matching row is no error.
Execute(rows, stmt) ==
  CASE stmt.kind = "create" -> ExecuteCreate(rows, stmt)
    [] stmt.kind = "upsert" ->
         LET old == {r \in rows : SameKey(r, stmt.key, stmt.cols)}
         IN [rows |-> IF old = {}
                      THEN rows \cup {NewRow(stmt.table, stmt.cols)}
                      ELSE (rows \ old) \cup
                           {Assign(r, stmt.cols, stmt.insertOnly) : r \in old},
             err |-> NoError]
    [] stmt.kind = "update" ->
         [rows |-> {IF Matches(r, stmt.conds) THEN Assign(r, stmt.cols, {}) ELSE r :
                      r \in rows},
          err |-> NoError]
    [] stmt.kind = "delete" ->
         [rows |-> {r \in rows : ~Matches(r, stmt.conds)}, err |-> NoError]
    [] OTHER -> [rows |-> rows, err |-> NoError]

\* ---- handler: catch-up
\* The events a catch-up step of instance i asks for: those of the aggregate
\* types with reducers, with a sequence above the watermark, ascending.
ProjectionQuery(P, i, mark) ==
  SearchQuery({NewFilter("FieldInstanceID", i, "OperationEquals"),
               NewFilter("FieldAggregateType", {r[1] : r \in Reducers(P)}, "OperationIn"),
               NewFilter("FieldSequence", mark, "OperationGreater")}, FALSE)

\* The bounded batch of one step's transaction.
Batch(events) ==
  SubSeq(events, 1, IF Len(events) < BatchLimit THEN Len(events) ELSE BatchLimit)

\* The runtime types of the events of a batch; the one at wrongAt, if any,
\* is of a type its reducer does not expect.
Shapes(batch, wrongAt) ==
  [k \in DOMAIN batch |-> IF k = wrongAt THEN BaseEvent ELSE GoType(batch[k])]

\* The transaction of one step, from the k-th event of the batch on: each
\* event is reduced, its statement applied and the watermark moved to it.
\* A reducer's error, a statement's error or a storage failure (at the
\* failAt-th statement) ends the batch with that error.
RECURSIVE RunBatch(_, _, _, _, _, _)
RunBatch(P, st, batch, shapes, failAt, k) ==
  IF k > Len(batch) THEN st
  ELSE
    LET e == batch[k]
        r == Reduce(P, e, shapes[k])
        x == Execute(st.rows, r.stmt)
    IN IF r.err # NoError THEN [st EXCEPT !.err = r.err]
       ELSE IF k = failAt THEN [st EXCEPT !.err = StorageFailure]
       ELSE IF x.err # NoError THEN [st EXCEPT !.err = x.err]
       ELSE RunBatch(P,
              [rows |-> x.rows,
               mark |-> IF e.event_sequence > st.mark THEN e.event_sequence ELSE st.mark,
               done |-> Append(st.done, e),
               err |-> NoError],
              batch, shapes, failAt, k + 1)

Table(P) == IF P = ExecutionTable THEN executions ELSE sessions

\* A step whose statements are applied outside of the transaction that moves
\* the watermark: what was applied before a failure stays.
CatchUpTorn(P, i, batch, shapes, failAt) ==
  /\ Len(batch) > 0
  /\ LET r == RunBatch(P, [rows |-> Table(P), mark |-> watermark[P][i],
                           done |-> <<>>, err |-> NoError],
                       batch, shapes, failAt, 1)
     IN /\ out' = [op |-> "CatchUp", projection |-> P, instance |-> i,
                   events |-> batch, shapes |-> shapes, failAt |-> failAt,
                   err |-> r.err]
        /\ executions' = IF P = ExecutionTable THEN r.rows ELSE executions
        /\ sessions' = IF P = SessionsProjectionTable THEN r.rows ELSE sessions
        /\ IF r.err = NoError
           THEN /\ watermark' = [watermark EXCEPT ![P][i] = r.mark]
                /\ processed' = [processed EXCEPT ![P] = @ \o r.done]
           ELSE UNCHANGED <<watermark, processed>>
  /\ UNCHANGED <<log, uniq, pc, ctx, cmds, tx, stale, nsub, clock, mvcc>>

\* One catch-up step of projection P for instance i, on the batch Filter
\* returned: the statements and the new watermark are committed in one
\* transaction, or, after an error or a crash, none of them is.
CatchUp(P, i, batch, shapes, failAt) ==
  /\ Len(batch) > 0
  /\ LET r == RunBatch(P, [rows |-> Table(P), mark |-> watermark[P][i],
                           done |-> <<>>, err |-> NoError],
                       batch, shapes, failAt, 1)
     IN /\ out' = [op |-> "CatchUp", projection |-> P, instance |-> i,
                   events |-> batch, shapes |-> shapes, failAt |-> failAt,
                   err |-> r.err]
        /\ IF r.err = NoError
           THEN /\ executions' = IF P = ExecutionTable THEN r.rows ELSE executions
                /\ sessions' = IF P = SessionsProjectionTable THEN r.rows ELSE sessions
                /\ watermark' = [watermark EXCEPT ![P][i] = r.mark]
                /\ processed' = [processed EXCEPT ![P] = @ \o r.done]
           ELSE UNCHANGED <<executions, sessions, watermark, processed>>
  /\ UNCHANGED <<log, uniq, pc, ctx, cmds, tx, stale, nsub, clock, mvcc>>

\* The catch-up loops of the projections Ps: any step on what Filter
\* returns for the instance's watermark, with any one event of the batch of
\* a wrong runtime type or a failure at any one statement.
CatchUps(Ps) ==
  \E P \in Ps, i \in CtxInstances :
    \E events \in QueryResults(log, mvcc, ProjectionQuery(P, i, watermark[P][i])) :
      \E wrongAt, failAt \in 0..Len(Batch(events)) :
        /\ wrongAt = 0 \/ failAt = 0
        /\ CatchUp(P, i, Batch(events), Shapes(Batch(events), wrongAt), failAt)

\* ------------------------------------------------------------------ execution queries
\* sq.Eq: every named column of the row equals the given value.
Eq(r, eq) == \A col \in DOMAIN eq : r[col] = eq[col]

\* NewExecutionIDSearchQuery, NewExecutionResourceOwnerQuery: a text query
\* on one column, TextEquals.
NewTextQuery(col, value) == [col |-> col, value |-> value]
NewExecutionIDSearchQuery(id) == NewTextQuery("id", id)
NewExecutionResourceOwnerQuery(id) == NewTextQuery("resource_owner", id)

\* ExecutionSearchQueries.toQuery: the conditions of all queries.
toQuery(r, queries) ==
  \A k \in DOMAIN queries : r[queries[k].col] = queries[k].value

\* The rows a prepared SELECT with a WHERE clause reads from the table.
genericSelect(rows, eq, queries) ==
  {r \in rows : Eq(r, eq) /\ toQuery(r, queries)}

\* The scan of prepareExecutionQuery and prepareExecutionsQuery: the
\* selected columns of a row; instance_id is not among them.
ScanExecution(r) ==
  [ID |-> r.id, CreationDate |-> r.creation_date, ChangeDate |-> r.change_date,
   ResourceOwner |-> r.resource_owner, Sequence |-> r.sequence,
   Targets |-> r.targets, Includes |-> r.includes]

\* The WHERE clause of GetExecutionByID for a context of instance c: the
\* instance_id column is compared with resourceOwner.
GetExecutionByIDEq(c, id, resourceOwner) ==
  [id |-> id, resource_owner |-> resourceOwner, instance_id |-> resourceOwner]

\* The WHERE clause of SearchExecutions for a context of instance c.
SearchExecutionsEq(c) == [instance_id |-> c]

QueryInternal == [kind |-> "Internal", msg |-> "Errors.Internal"]

\* Queries.GetExecutionByID for a context of instance c: the row the WHERE
\* clause selects, scanned; sql.ErrNoRows is NotFound, any other error of
\* the scan Internal.
GetExecutionByID(c, id, resourceOwner, failed) ==
  /\ LET rows == genericSelect(executions, GetExecutionByIDEq(c, id, resourceOwner), <<>>)
     IN out' = [op |-> "GetExecutionByID", instance |-> c, id |-> id,
                resourceOwner |-> resourceOwner,
                rows |-> IF failed THEN {} ELSE rows,
                executions |-> IF failed THEN {} ELSE {ScanExecution(r) : r \in rows},
                err |-> IF failed THEN QueryInternal
                        ELSE IF rows = {}
                        THEN ThrowNotFound("Errors.Execution.NotFound")
                        ELSE NoError]
  /\ UNCHANGED <<log, uniq, pc, ctx, cmds, tx, stale, nsub, clock, mvcc, projections>>

\* Queries.SearchExecutions for a context of instance c: the rows of the
\* instance that meet the queries, scanned, and their count.
SearchExecutions(c, queries, failed) ==
  /\ LET rows == genericSelect(executions, SearchExecutionsEq(c), queries)
     IN out' = [op |-> "SearchExecutions", instance |-> c, queries |-> queries,
                rows |-> IF failed THEN {} ELSE rows,
                executions |-> IF failed THEN {} ELSE {ScanExecution(r) : r \in rows},
                count |-> IF failed THEN 0 ELSE Cardinality(rows),
                err |-> IF failed THEN QueryInternal ELSE NoError]
  /\ UNCHANGED <<log, uniq, pc, ctx, cmds, tx, stale, nsub, clock, mvcc, projections>>

\* ------------------------------------------------------------------ CreateInstance
\* Strings are sequences of characters.  The characters instance IDs are
\* made of here: a digit, letters, and two characters that are neither.
IDChars == {"1", "s", "e", "q", "_", ";"}
InstanceIDStrings == UNION {[1..n -> IDChars] : n \in 0..MaxIDLen}

\* [0-9a-zA-Z] on the characters in use.
IsAlnum(ch) ==
  ch \in {"1", "a", "e", "i", "n", "o", "q", "r", "s", "t", "v"}

\* The literals of the pattern and of the CONCAT: 'eventstore.i_', '_seq'.
SeqPrefix == <<"e", "v", "e", "n", "t", "s", "t", "o", "r", "e", ".", "i", "_">>
SeqSuffix == <<"_", "s", "e", "q">>

\* SELECT CONCAT('eventstore.i_', $1::TEXT, '_seq')
ConcatSequenceName(instanceID) == SeqPrefix \o instanceID \o SeqSuffix

\* instanceRegexp.MatchString: eventstore\.i_[0-9a-zA-Z]{1,}_seq matches a
\* part of the string that begins at any place of it; the pattern has no
\* anchors.
MatchesFrom(name, start, n) ==
  /\ start + Len(SeqPrefix) + n + Len(SeqSuffix) - 1 <= Len(name)
  /\ SubSeq(name, start, start + Len(SeqPrefix) - 1) = SeqPrefix
  /\ \A k \in 1..n : IsAlnum(name[start + Len(SeqPrefix) - 1 + k])
  /\ SubSeq(name, start + Len(SeqPrefix) + n,
            start + Len(SeqPrefix) + n + Len(SeqSuffix) - 1) = SeqSuffix
instanceRegexpMatchString(name) ==
  \E start \in 1..Len(name), n \in 1..Len(name) : MatchesFrom(name, start, n)

NoDDL == <<>>
CreateSequence(sequenceName) ==
  <<"C", "R", "E", "A", "T", "E", " ", "S", "E", "Q", "U", "E", "N", "C", "E", " ">>
    \o sequenceName

\* CRDB.CreateInstance: the sequence name is built by the store and
\* scanned; a failed scan or a name the pattern does not match is an
\* invalid argument; otherwise CREATE SEQUENCE is executed, and its
\* failure is an internal error.
CreateInstance(instanceID, scanFailed, execFailed) ==
  /\ LET sequenceName == ConcatSequenceName(instanceID)
     IN out' = IF scanFailed \/ ~instanceRegexpMatchString(sequenceName)
               THEN [op |-> "CreateInstance", instanceID |-> instanceID,
                     ddl |-> NoDDL,
                     err |-> ThrowInvalidArgument("Errors.InvalidArgument")]
               ELSE [op |-> "CreateInstance", instanceID |-> instanceID,
                     ddl |-> CreateSequence(sequenceName),
                     err |-> IF execFailed THEN ThrowInternal("Errors.Internal")
                             ELSE NoError]
  /\ UNCHANGED <<log, uniq, pc, ctx, cmds, tx, stale, nsub, clock, mvcc, projections>>

\* ------------------------------------------------------------------ the store
\* Commands of the executions aggregate and of one org.
StoreCmds ==
  {Cmd("", "execution", "x1", "ro1", "execution.set", "d", <<>>),
   Cmd("", "execution", "x1", "ro1", "execution.removed", Nil, <<>>),
   Cmd("", "org", "a1", "ro1", "added", Nil, <<>>)}
\* Commands of two orgs.
OrgCmds ==
  {Cmd("", "org", a, "ro1", "added", Nil, <<>>) : a \in AggIDs}

\* The queries callers read with: all events of an instance in either
\* order, and those with a sequence above n, ascending.
InstanceQuery(i, desc) ==
  SearchQuery({NewFilter("FieldInstanceID", i, "OperationEquals")}, desc)
SequenceGreaterQuery(i, n) ==
  SearchQuery({NewFilter("FieldInstanceID", i, "OperationEquals"),
               NewFilter("FieldSequence", n, "OperationGreater")}, FALSE)
Queries ==
  {InstanceQuery(i, desc) : i \in CtxInstances, desc \in BOOLEAN}
  \cup {SequenceGreaterQuery(i, n) : i \in CtxInstances, n \in 0..1}
StoreQueries == {InstanceQuery(i, FALSE) : i \in CtxInstances}

\* Filter called with a query of Q, and OrgByID.
Reads(Q) ==
  \/ \E q \in Q, failed \in BOOLEAN :
       \E events \in QueryResults(log, mvcc, q) : Filter(q, events, failed)
  \/ \E c \in CtxInstances, id \in AggIDs, failed \in BOOLEAN :
       \E events \in QueryResults(log, mvcc, OrgSearchQuery(id, c)) :
         OrgByID(c, id, events, failed)

\* One caller appending events while events are read and the executions
\* projection catches up.
NextStore ==
  \/ \E c \in CtxInstances, cs \in Batches(StoreCmds) :
       nsub + Len(cs) <= MaxCmds /\ Push("p1", c, cs)
  \/ \E fault \in Faults(cmds["p1"]) : RunTx("p1", fault)
  \/ CommitTx("p1")
  \/ Reads(StoreQueries)
  \/ \E q \in StoreQueries, failed \in BOOLEAN : LatestSequence(q, failed)
  \/ \E q \in StoreQueries, failed \in BOOLEAN : InstanceIDs(q, failed)
  \/ CatchUps({ExecutionTable})
SpecStore == Init /\ [][NextStore]_vars

\* One caller appending org events while events are read.
NextRead ==
  \/ \E c \in CtxInstances, cs \in Batches(OrgCmds) :
       nsub + Len(cs) <= MaxSerialCmds /\ Push("p1", c, cs)
  \/ RunTx("p1", NoFault)
  \/ CommitTx("p1")
  \/ Reads(Queries)
SpecRead == Init /\ [][NextRead]_vars

\* Commands of one session, its user, one execution and the instance, in the
\* instance of the context, and of a session and an execution of the same
\* ids in another instance.
ProjCmds ==
  {Cmd("", "session", "s1", "ro1", "session.added", "d", <<>>),
   Cmd("", "session", "s1", "ro1", "session.user.checked", "u1", <<>>),
   Cmd("", "session", "s1", "ro1", "session.password.checked", "t0", <<>>),
   Cmd("", "session", "s1", "ro1", "session.terminated", Nil, <<>>),
   Cmd("", "session", "s1", "ro1", "session.other", Nil, <<>>),
   Cmd("", "user", "u1", "ro1", "user.human.password.changed", Nil, <<>>),
   Cmd("", "instance", "i1", "ro1", "instance.removed", Nil, <<>>),
   Cmd("", "execution", "x1", "ro1", "execution.set", "d", <<>>),
   Cmd("", "execution", "x1", "ro1", "execution.removed", Nil, <<>>),
   Cmd("i2", "session", "s1", "ro1", "session.added", "d", <<>>),
   Cmd("i2", "execution", "x1", "ro1", "execution.set", "d", <<>>)}

\* One caller appending events in instance i1 while the catch-up loops of
\* both projections run, with reducers meeting events of a wrong runtime
\* type and with storage failures and crashes in the steps.
NextProjection ==
  \/ \E c \in ProjCmds : nsub < MaxProjCmds /\ Push("p1", "i1", <<c>>)
  \/ RunTx("p1", NoFault)
  \/ CommitTx("p1")
  \/ CatchUps(Projections)
SpecProjection == Init /\ [][NextProjection]_vars

\* The commands of two concurrent callers on one session and on a user.
OrderCmds ==
  {Cmd("", "session", "s1", "ro1", "session.added", "d", <<>>),
   Cmd("", "session", "s1", "ro1", "session.user.checked", "u1", <<>>),
   Cmd("", "user", "u1", "ro1", "user.human.password.changed", Nil, <<>>)}

\* Two callers appending events concurrently, their transactions retried
\* on a conflict, while the catch-up loop of the sessions projection runs.
NextOrder ==
  \/ \E p \in Procs, c \in OrderCmds :
       nsub < MaxProjCmds /\ Push(p, "i1", <<c>>)
  \/ \E p \in Procs : RunTx(p, NoFault)
  \/ \E p \in Procs : CommitTx(p)
  \/ \E p \in Procs : RetryTx(p)
  \/ CatchUps({SessionsProjectionTable})
SpecOrder == Init /\ [][NextOrder]_vars

\* Commands with a unique constraint on an aggregate of the caller's
\* instance and on one addressed with an explicit instance.
TenantCmds ==
  {Cmd(inst, "org", "a1", "ro1", "added", Nil, <<uc>>) :
     inst \in CmdInstances,
     uc \in {UniqueConstraint("Add", "name", "Bob"),
             UniqueConstraint("Remove", "name", "BOB"),
             UniqueConstraint("InstanceRemove", "", "")}}

\* One caller, one Push at a time, of commands that name their instance or
\* leave it to the context.
NextTenant ==
  \/ \E c \in CtxInstances, cs \in Batches(TenantCmds) :
       nsub + Len(cs) <= MaxSerialCmds /\ Push("p1", c, cs)
  \/ \E fault \in Faults(cmds["p1"]) : RunTx("p1", fault)
  \/ CommitTx("p1")
SpecTenant == Init /\ [][NextTenant]_vars

\* A session of instance i2 whose user and password are checked, and the
\* password change of the user of that name in the caller's instance.
PasswordCmds ==
  {Cmd("i2", "session", "s1", "ro1", "session.added", "d", <<>>),
   Cmd("i2", "session", "s1", "ro1", "session.user.checked", "u1", <<>>),
   Cmd("i2", "session", "s1", "ro1", "session.password.checked", "t0", <<>>),
   Cmd("", "user", "u1", "ro1", "user.human.password.changed", Nil, <<>>)}

\* One caller of instance i1 appending these events while the catch-up
\* loop of the sessions projection runs.
NextPassword ==
  \/ \E c \in PasswordCmds : nsub < MaxPasswordCmds /\ Push("p1", "i1", <<c>>)
  \/ RunTx("p1", NoFault)
  \/ CommitTx("p1")
  \/ CatchUps({SessionsProjectionTable})
SpecPassword == Init /\ [][NextPassword]_vars

\* Executions of the caller's instance and of instance i2, the latter owned
\* by the instance itself.
ExecCmds ==
  {Cmd("", "execution", "x1", "ro1", "execution.set", "d", <<>>),
   Cmd("i2", "execution", "x1", "i2", "execution.set", "d", <<>>),
   Cmd("", "execution", "x1", "ro1", "execution.removed", Nil, <<>>)}

\* The owners GetExecutionByID is asked for, and the queries of a search.
ExecOwners == {"ro1", "i1", "i2"}
ExecQueries ==
  {<<>>, <<NewExecutionIDSearchQuery("x1")>>,
   <<NewExecutionIDSearchQuery("x1"), NewExecutionResourceOwnerQuery("i2")>>}

\* One caller of instance i1 setting and removing executions, the
\* executions projection catching up, and readers of either instance.
NextExec ==
  \/ \E c \in ExecCmds : nsub < MaxProjCmds /\ Push("p1", "i1", <<c>>)
  \/ RunTx("p1", NoFault)
  \/ CommitTx("p1")
  \/ CatchUps({ExecutionTable})
  \/ \E c \in CtxInstances, ro \in ExecOwners, failed \in BOOLEAN :
       GetExecutionByID(c, "x1", ro, failed)
  \/ \E c \in CtxInstances, qs \in ExecQueries, failed \in BOOLEAN :
       SearchExecutions(c, qs, failed)
SpecExec == Init /\ [][NextExec]_vars

\* A caller holds any instance ID and calls CreateInstance with it once.
InitInstance ==
  /\ log = <<>>
  /\ uniq = EmptyTable
  /\ pc = [p \in Procs |-> "idle"]
  /\ ctx = [p \in Procs |-> "i1"]
  /\ cmds = [p \in Procs |-> <<>>]
  /\ tx = [p \in Procs |-> EmptyTx]
  /\ stale = [p \in Procs |-> FALSE]
  /\ nsub = 0
  /\ mvcc = <<>>
  /\ out \in {[op |-> "call", instanceID |-> id] : id \in InstanceIDStrings}
  /\ clock = 1
  /\ executions = NoRows
  /\ sessions = NoRows
  /\ watermark = [P \in {"projections.executions", "projections.sessions4"} |->
                   [i \in CtxInstances |-> 0]]
  /\ processed = [P \in {"projections.executions", "projections.sessions4"} |-> <<>>]

NextInstance ==
  \E scanFailed, execFailed \in BOOLEAN :
    out.op = "call" /\ CreateInstance(out.instanceID, scanFailed, execFailed)
SpecInstance == InitInstance /\ [][NextInstance]_vars

\* ------------------------------------------------------------------ claims
\* The committed events of aggregate instance (i, t, a), in commit order.
AggregateEvents(i, t, a) ==
  SelectSeq(log, LAMBDA r : /\ r.instance_id = i
                            /\ r.aggregate_type = t
                            /\ r.aggregate_id = a)

SameAggregate(r1, r2) ==
  /\ r1.instance_id = r2.instance_id
  /\ r1.aggregate_type = r2.aggregate_type
  /\ r1.aggregate_id = r2.aggregate_id

\* C1: in every reachable state the committed events of every aggregate
\* instance (instanceID, aggregateType, aggregateID) carry, in commit order,
\* the sequences 1, 2, ..., n: no gap, no repeated value, starting at 1.
C1_SequencesGapless ==
  \A i \in CtxInstances, t \in AggTypes, a \in AggIDs :
    LET es == AggregateEvents(i, t, a)
    IN \A k \in DOMAIN es : es[k].event_sequence = k

\* An aggregate instance holds two committed events.
C1_Witness ==
  \E i \in CtxInstances, t \in AggTypes, a \in AggIDs :
    Len(AggregateEvents(i, t, a)) = 2

\* C2: whatever the interleaving of concurrent Push calls, no two committed
\* events of one aggregate instance carry the same sequence.
C2_NoDuplicateSequence ==
  \A j, k \in DOMAIN log :
    (j # k /\ SameAggregate(log[j], log[k]))
      => log[j].event_sequence # log[k].event_sequence

\* A transaction that computed the sequence another transaction committed
\* meanwhile for the same aggregate waits to commit, invalidated.
C2_Witness ==
  \E q \in Procs, k \in DOMAIN log :
    /\ pc[q] = "commit"
    /\ stale[q]
    /\ \E j \in DOMAIN tx[q].rows :
         /\ SameAggregate(tx[q].rows[j], log[k])
         /\ tx[q].rows[j].event_sequence = log[k].event_sequence

\* Both Push calls returned without error and the log holds their two events
\* with sequences 1 and 2, the first committed being the event of p.
BothCommitted(p, q) ==
  /\ pc[p] = "ret" /\ tx[p].err = NoError
  /\ pc[q] = "ret" /\ tx[q].err = NoError
  /\ Len(log) = 2
  /\ SameAggregate(log[1], log[2])
  /\ log[1].event_sequence = 1 /\ tx[p].events[1].Seq = 1
  /\ log[2].event_sequence = 2 /\ tx[q].events[1].Seq = 2
  /\ log[1].event_type = cmds[p][1].etyp
  /\ log[2].event_type = cmds[q][1].etyp

\* C3: two Push calls submitted at once for one empty aggregate instance both
\* commit eventually (the retry being scheduled fairly), and the log then
\* holds exactly their two events, with sequences 1 and 2 in commit order.
C3_BothEventuallyCommit ==
  <>[](\E p, q \in Procs : p # q /\ BothCommitted(p, q))

\* Both have committed, the second after its first transaction was aborted:
\* it read the empty aggregate and still got sequence 2.
C3_Witness ==
  \E p, q \in Procs :
    /\ p # q
    /\ BothCommitted(p, q)
    /\ cmds[p][1].etyp # cmds[q][1].etyp

\* Push of caller p returns in this step.
Returns(p) == pc[p] # "ret" /\ pc'[p] = "ret"

\* C4: a Push is all-or-nothing. A Push that returns an error (a failed event
\* insert, a failed or refused constraint statement, a cancelled context)
\* leaves the event table and the constraint table as they were; and every
\* change of either table is the commit of one whole batch: the events of all
\* its commands and the statements of all their constraints at once.
C4_AllOrNothing ==
  [][/\ \A p \in Procs :
          (Returns(p) /\ tx'[p].err # NoError) => (log' = log /\ uniq' = uniq)
     /\ (log' # log \/ uniq' # uniq) =>
          \E p \in Procs :
            /\ Returns(p)
            /\ tx'[p].err = NoError
            /\ Len(tx[p].rows) = Len(cmds[p])
            /\ Len(tx[p].writes) = Len(AllUniqueConstraints(cmds[p]))
            /\ log' = log \o tx[p].rows
            /\ uniq' = ApplyWrites(uniq, tx[p].writes)]_vars

\* A Push returned an error after its transaction had inserted an event:
\* the caller holds an event whose sequence the log does not hold.
C4_Witness ==
  \E p \in Procs :
    /\ pc[p] = "ret"
    /\ tx[p].err # NoError
    /\ tx[p].events[1] # NilEvent
    /\ \A k \in DOMAIN log : log[k].event_sequence # tx[p].events[1].Seq

\* Two fields that are equal up to letter case.
SameUpToCase(f, g) == f = g \/ {f, g} \subseteq {"Bob", "bob", "BOB"}

\* A live row of the committed table holds the key of constraint uc for
\* instance c, up to the letter case of the field.
LiveKey(uc, c) ==
  \E r \in UCRows :
    /\ uniq[r] > 0
    /\ r.unique_type = uc.unique_type
    /\ r.instance_id = c
    /\ SameUpToCase(r.unique_field, uc.unique_field)

\* The closure of caller p runs in this step, without a storage fault.
Runs(p) == pc[p] = "run" /\ pc'[p] # "run" /\ tx'[p].fault = NoFault

\* The Push fails with AlreadyExists and commits nothing.
FailsAlreadyExists(p) ==
  /\ pc'[p] = "ret"
  /\ tx'[p].err.kind = "AlreadyExists"
  /\ log' = log
  /\ uniq' = uniq

\* C5 as stated: a Push that declares an Add of a key that is live (same type,
\* same instance, field equal up to case) fails with AlreadyExists, commits no
\* event and leaves the committed event and constraint row unchanged.
C5_Original ==
  [][\A p \in Procs :
       LET ucs == AllUniqueConstraints(cmds[p])
       IN (/\ Runs(p)
           /\ \E j \in DOMAIN ucs : ucs[j].action = "Add" /\ LiveKey(ucs[j], ctx[p]))
            => FailsAlreadyExists(p)]_vars

\* C5, amended: the same, when no constraint declared earlier in the batch
\* removes that key (a Remove of the key, or an InstanceRemove).
C5_AddOfLiveKeyFails ==
  [][\A p \in Procs :
       LET ucs == AllUniqueConstraints(cmds[p])
       IN (/\ Runs(p)
           /\ \E j \in DOMAIN ucs :
                /\ ucs[j].action = "Add"
                /\ LiveKey(ucs[j], ctx[p])
                /\ \A i \in 1..(j - 1) :
                     /\ ucs[i].action # "InstanceRemove"
                     /\ ~(/\ ucs[i].action = "Remove"
                          /\ ucs[i].unique_type = ucs[j].unique_type
                          /\ SameUpToCase(ucs[i].unique_field, ucs[j].unique_field)))
            => FailsAlreadyExists(p)]_vars

\* A Push that adds "Bob" returned AlreadyExists with the constraint's own
\* message while the row "bob" of its type and instance is live.
C5_Witness ==
  \E p \in Procs, t \in UniqueTypes :
    /\ pc[p] = "ret"
    /\ tx[p].err = ThrowAlreadyExists(UniqueConstraint("Add", t, "Bob").msg)
    /\ AllUniqueConstraints(cmds[p]) = <<UniqueConstraint("Add", t, "Bob")>>
    /\ uniq[UCRow(t, "bob", ctx[p])] = 1
    /\ Len(log) >= 1

\* C6: in every reachable state the constraint table holds at most one row
\* per (uniqueType, uniqueField up to letter case, instanceID), also when
\* concurrent Push calls add the same key.
C6_AtMostOneLiveAdd ==
  \A r1, r2 \in UCRows :
    /\ uniq[r1] <= 1
    /\ (/\ uniq[r1] > 0 /\ uniq[r2] > 0
        /\ r1.unique_type = r2.unique_type
        /\ r1.instance_id = r2.instance_id
        /\ SameUpToCase(r1.unique_field, r2.unique_field)) => r1 = r2

\* Two callers added the same key, written in different case, at once: one
\* has committed its row, the other's transaction is invalidated.
C6_Witness ==
  \E p, q \in Procs, t \in UniqueTypes :
    /\ pc[p] = "ret" /\ tx[p].err = NoError
    /\ AllUniqueConstraints(cmds[p]) = <<UniqueConstraint("Add", t, "Bob")>>
    /\ pc[q] = "commit" /\ stale[q]
    /\ AllUniqueConstraints(cmds[q]) = <<UniqueConstraint("Add", t, "bob")>>
    /\ ctx[p] = ctx[q]
    /\ uniq[UCRow(t, "bob", ctx[p])] = 1

\* The Push of caller p, whose only constraint is uc, commits in this step.
CommitsOnly(p, uc) ==
  /\ Returns(p)
  /\ tx'[p].err = NoError
  /\ AllUniqueConstraints(cmds[p]) = <<uc>>

\* Row r holds the key of the Remove of (t, f) for instance c.
RemovedKey(r, t, f, c) ==
  /\ r.unique_type = t
  /\ r.instance_id = c
  /\ SameUpToCase(r.unique_field, f)

\* C7: a Remove is idempotent. On every reachable table, for every key: the
\* Remove raises no error, deletes the row of the key and no row of another
\* uniqueType, uniqueField or instanceID, leaves the table unchanged when the
\* key is absent, and applied twice gives the table it gives applied once.
\* The Push that declares it commits exactly that table.
C7_RemoveIdempotent ==
  /\ [](\A c \in CtxInstances, t \in UniqueTypes, f \in Fields :
          LET rm == UniqueConstraint("Remove", t, f)
              once == handleUniqueConstraints(uniq, c, <<rm>>, NoFault)
              twice == handleUniqueConstraints(once.table, c, <<rm>>, NoFault)
          IN /\ once.err = NoError
             /\ twice.err = NoError
             /\ twice.table = once.table
             /\ ~LiveKey(rm, c) => once.table = uniq
             /\ \A r \in UCRows :
                  once.table[r] = IF RemovedKey(r, t, f, c) THEN 0 ELSE uniq[r])
  /\ [][\A p \in Procs, t \in UniqueTypes, f \in Fields :
          CommitsOnly(p, UniqueConstraint("Remove", t, f)) =>
            \A r \in UCRows :
              uniq'[r] = IF RemovedKey(r, t, f, ctx[p]) THEN 0 ELSE uniq[r]]_vars

\* The transaction of a Push whose only constraint removes a key that no row
\* holds is about to commit, no error raised, while a row of another type and
\* a row of another instance are live.
C7_Witness ==
  \E p \in Procs, t \in UniqueTypes, f \in Fields :
    LET rm == UniqueConstraint("Remove", t, f)
    IN /\ pc[p] = "commit"
       /\ AllUniqueConstraints(cmds[p]) = <<rm>>
       /\ Len(tx[p].writes) = 1
       /\ ~LiveKey(rm, ctx[p])
       /\ \E r1, r2 \in UCRows :
            /\ uniq[r1] > 0 /\ r1.unique_type # t /\ r1.instance_id = ctx[p]
            /\ uniq[r2] > 0 /\ r2.unique_type = t /\ r2.instance_id # ctx[p]

\* C8: an InstanceRemove for instance I deletes every constraint row of I and
\* leaves the rows of every other instance unchanged, on every reachable
\* table; the Push that declares it commits exactly that table.
C8_InstanceRemoveFrame ==
  /\ [](\A c \in CtxInstances :
          LET ir == handleUniqueConstraints(uniq, c,
                      <<UniqueConstraint("InstanceRemove", "", "")>>, NoFault)
          IN /\ ir.err = NoError
             /\ \A r \in UCRows :
                  ir.table[r] = IF r.instance_id = c THEN 0 ELSE uniq[r])
  /\ [][\A p \in Procs :
          CommitsOnly(p, UniqueConstraint("InstanceRemove", "", "")) =>
            \A r \in UCRows :
              uniq'[r] = IF r.instance_id = ctx[p] THEN 0 ELSE uniq[r]]_vars

\* The transaction of a Push that declares an InstanceRemove is about to
\* commit while rows of its instance and of another instance are live.
C8_Witness ==
  \E p \in Procs :
    /\ pc[p] = "commit"
    /\ AllUniqueConstraints(cmds[p]) = <<UniqueConstraint("InstanceRemove", "", "")>>
    /\ Len(tx[p].writes) = 1
    /\ \E r1, r2 \in UCRows :
         /\ uniq[r1] > 0 /\ r1.instance_id = ctx[p]
         /\ uniq[r2] > 0 /\ r2.instance_id # ctx[p]

\* Commands i and j of batch cs, run with context instance c, address the
\* same aggregate instance.
SameTarget(cs, c, i, j) ==
  /\ cs[i].typ = cs[j].typ
  /\ cs[i].id = cs[j].id
  /\ (IF cs[i].inst = "" THEN c ELSE cs[i].inst)
       = (IF cs[j].inst = "" THEN c ELSE cs[j].inst)

\* Event e is the persisted form of command cmd run with context instance c:
\* same event type, aggregate and payload, and the log holds its row.
PersistedForm(e, cmd, c) ==
  /\ e # NilEvent
  /\ e.Typ = cmd.etyp
  /\ e.AggregateType = cmd.typ
  /\ e.AggregateID = cmd.id
  /\ e.InstanceID = (IF cmd.inst = "" THEN c ELSE cmd.inst)
  /\ e.Data = (IF cmd.payload = Nil THEN NULL ELSE Val(<<"json", cmd.payload>>))
  /\ \E k \in DOMAIN log :
       /\ log[k].event_sequence = e.Seq
       /\ log[k].aggregate_type = e.AggregateType
       /\ log[k].aggregate_id = e.AggregateID
       /\ log[k].instance_id = e.InstanceID
       /\ log[k].event_type = e.Typ
       /\ log[k].event_data = e.Data

\* C9: a successful Push of n commands returns n events, the i-th being the
\* persisted form of the i-th command; commands of the batch that address the
\* same aggregate instance get consecutive sequences in submission order.
C9_EventsMatchCommands ==
  \A p \in Procs :
    (pc[p] = "ret" /\ tx[p].err = NoError) =>
      LET es == tx[p].events
          cs == cmds[p]
      IN /\ Len(es) = Len(cs)
         /\ \A i \in DOMAIN cs : PersistedForm(es[i], cs[i], ctx[p])
         /\ \A i, j \in DOMAIN cs :
              (/\ i < j
               /\ SameTarget(cs, ctx[p], i, j)
               /\ \A m \in (i + 1)..(j - 1) : ~SameTarget(cs, ctx[p], i, m))
                => es[j].Seq = es[i].Seq + 1

\* A Push of two commands on one new aggregate returned the sequences 1 and
\* 2, the second event carrying its command's payload.
C9_Witness ==
  \E p \in Procs :
    /\ pc[p] = "ret" /\ tx[p].err = NoError
    /\ Len(cmds[p]) = 2
    /\ SameTarget(cmds[p], ctx[p], 1, 2)
    /\ tx[p].events[1].Seq = 1
    /\ tx[p].events[2].Seq = 2
    /\ tx[p].events[2].Data # NULL

\* C10: for every committed event, previousAggregateSequence is the sequence
\* of the event committed just before it for the same aggregate instance,
\* that is sequence - 1 (NULL, returned as 0, for the aggregate's first
\* event), and previousAggregateTypeSequence is the value the aggregate-type
\* counter of its (aggregateType, instanceID) had just before the insert: the
\* highest sequence among the earlier events of that type and instance.
C10_PreviousSequences ==
  /\ \A k \in DOMAIN log :
       LET row == log[k]
           prior == {j \in 1..(k - 1) : SameAggregate(log[j], row)}
           priorOfType == {j \in 1..(k - 1) :
                             /\ log[j].aggregate_type = row.aggregate_type
                             /\ log[j].instance_id = row.instance_id}
       IN /\ row.previous_aggregate_sequence =
               (IF prior = {} THEN NULL
                ELSE {log[CHOOSE j \in prior : \A i \in prior : i <= j].event_sequence})
          /\ row.previous_aggregate_sequence =
               (IF prior = {} THEN NULL ELSE {row.event_sequence - 1})
          /\ row.previous_aggregate_type_sequence =
               (IF priorOfType = {} THEN NULL
                ELSE {CHOOSE n \in {log[j].event_sequence : j \in priorOfType} :
                        \A j \in priorOfType : log[j].event_sequence <= n})
  /\ \A p \in Procs :
       (pc[p] = "ret" /\ tx[p].err = NoError) =>
         \A i \in DOMAIN tx[p].events :
           tx[p].events[i].PreviousAggregateSequence = tx[p].events[i].Seq - 1

\* The log holds the first event of an aggregate whose type already had an
\* event in the instance: no previous aggregate sequence, a previous
\* aggregate-type sequence.
C10_Witness ==
  \E k \in DOMAIN log :
    /\ log[k].previous_aggregate_sequence = NULL
    /\ log[k].previous_aggregate_type_sequence # NULL

\* Two committed events of one aggregate type in one instance.
SameTypeAndInstance(r1, r2) ==
  /\ r1.aggregate_type = r2.aggregate_type
  /\ r1.instance_id = r2.instance_id

\* C11: taking the committed events of one aggregate type and instance in
\* commit order, the aggregate-type sequence recorded for each event
\* (previous_aggregate_type_sequence, NULL read as 0) is strictly greater
\* than the one recorded for the event committed before it.
C11_TypeSequenceStrictlyIncreasing ==
  \A j, k \in DOMAIN log :
    (j < k /\ SameTypeAndInstance(log[j], log[k])) =>
      ScanSequence(log[j].previous_aggregate_type_sequence)
        < ScanSequence(log[k].previous_aggregate_type_sequence)

\* The row of the log that event e was scanned from.
IsRowOf(k, e) ==
  /\ log[k].instance_id = e.InstanceID
  /\ log[k].aggregate_type = e.AggregateType
  /\ log[k].aggregate_id = e.AggregateID
  /\ log[k].event_sequence = e.Seq

\* C12: all committed events of one aggregate instance carry the same
\* resource owner; the aggregate's first event takes the owner its command
\* declares, and every later event takes the owner stored for the aggregate,
\* whatever its own command declares.
C12_ResourceOwnerInherited ==
  /\ \A j, k \in DOMAIN log :
       SameAggregate(log[j], log[k]) => log[j].resource_owner = log[k].resource_owner
  /\ \A p \in Procs :
       (pc[p] = "ret" /\ tx[p].err = NoError) =>
         \A i \in DOMAIN cmds[p] :
           LET e == tx[p].events[i]
           IN /\ \E k \in DOMAIN log :
                   IsRowOf(k, e) /\ log[k].resource_owner = e.ResourceOwner
              /\ e.Seq = 1 => e.ResourceOwner = cmds[p][i].owner

\* A command declaring owner ro2 was appended to an aggregate whose first
\* event carries ro1: its event, the aggregate's second, carries ro1.
C12_Witness ==
  \E p \in Procs :
    /\ pc[p] = "ret" /\ tx[p].err = NoError
    /\ cmds[p][1].owner = "ro2"
    /\ tx[p].events[1].Seq = 2
    /\ tx[p].events[1].ResourceOwner = "ro1"
    /\ \E k \in DOMAIN log : IsRowOf(k, tx[p].events[1]) /\ log[k].resource_owner = "ro1"

\* What the insert statement would store next for aggregate (t, a) of
\* instance i, for a command declaring owner o, on the committed rows view:
\* the next sequence, both previous sequences and the inherited owner.
NextInsert(view, i, t, a, o) ==
  crdbInsert(view, [etyp |-> "added", typ |-> t, id |-> a, data |-> NULL,
                    owner |-> o, inst |-> i, now |-> clock])

\* C13: sequence assignment is isolated per instance. A commit that appends
\* no event of instance J leaves unchanged, for every aggregate of J, the
\* next sequence, the previous sequences it would record and the resource
\* owner it would inherit, also when an appended event has the same aggregate
\* type and id; and the first event of an aggregate is numbered 1 with no
\* previous aggregate sequence whatever other instances hold for that key.
C13_InstanceIsolation ==
  /\ [](\A k \in DOMAIN log :
          (\A j \in 1..(k - 1) : ~SameAggregate(log[j], log[k])) =>
            /\ log[k].event_sequence = 1
            /\ log[k].previous_aggregate_sequence = NULL)
  /\ [][\A J \in CtxInstances :
          (/\ Len(log') > Len(log)
           /\ \A k \in (Len(log) + 1)..Len(log') : log'[k].instance_id # J)
            => \A t \in AggTypes, a \in AggIDs, o \in Owners :
                 NextInsert(log', J, t, a, o) = NextInsert(log, J, t, a, o)]_vars

\* The log holds the same aggregate type and id in two instances, each with
\* sequence 1, the later one with no previous sequence of either kind.
C13_Witness ==
  \E j, k \in DOMAIN log :
    /\ j < k
    /\ log[j].aggregate_type = log[k].aggregate_type
    /\ log[j].aggregate_id = log[k].aggregate_id
    /\ log[j].instance_id # log[k].instance_id
    /\ log[j].event_sequence = 1
    /\ log[k].event_sequence = 1
    /\ log[k].previous_aggregate_type_sequence = NULL

\* C14: the event log is append-only. Every step keeps every committed event
\* at its place with identical field values and commit timestamp; the log
\* only grows by the commit of a Push, which appends that Push's events; a
\* Filter, LatestSequence, InstanceIDs or OrgByID read and a catch-up step of
\* the projection leave the log as it is.
C14_AppendOnly ==
  [][/\ Len(log') >= Len(log)
     /\ SubSeq(log', 1, Len(log)) = log
     /\ SubSeq(mvcc', 1, Len(mvcc)) = mvcc
     /\ log' # log =>
          \E p \in Procs :
            /\ pc[p] = "commit" /\ pc'[p] = "ret"
            /\ log' = log \o tx[p].rows
     /\ (out' # out \/ executions' # executions \/ watermark' # watermark) =>
          (log' = log /\ mvcc' = mvcc)]_vars

\* A read returned the first committed event alone, the projection holds a
\* row reduced from the log, and a Push committed after the first.
C14_Witness ==
  /\ Len(log) = 2
  /\ mvcc[1] < mvcc[2]
  /\ out.op = "Filter" /\ Len(out.events) = 1
  /\ out.events[1].creation_date = mvcc[1]
  /\ executions # NoRows

\* A Filter call returns without error in this step.
FilterReturns == out' # out /\ out'.op = "Filter" /\ out'.err = NoError

\* Event a is at or before event b in commit order: by commit timestamp,
\* then by sequence.
CommitOrder(a, b) ==
  \/ a.creation_date < b.creation_date
  \/ a.creation_date = b.creation_date /\ a.event_sequence <= b.event_sequence

\* C15: Filter returns the matching events ordered by commit order, that is
\* by (commit timestamp, sequence): ascending for an ascending query,
\* descending for a descending one, its result being the reverse of an
\* ascending result of the same filters. Of two matching events the one
\* committed earlier stands first in an ascending result and last in a
\* descending one.
C15_FilterCommitOrder ==
  [][FilterReturns =>
       LET es == out'.events
           desc == out'.query.desc
       IN /\ Len(es) = Cardinality(Matching(log, mvcc, out'.query))
          /\ \A k \in Matching(log, mvcc, out'.query) :
               \E a \in DOMAIN es : es[a] = eventQuery(log, mvcc, k)
          /\ \A a, b \in DOMAIN es :
               a < b => IF desc THEN CommitOrder(es[b], es[a])
                        ELSE CommitOrder(es[a], es[b])
          /\ \A a, b \in DOMAIN es, k1, k2 \in DOMAIN log :
               (/\ es[a] = eventQuery(log, mvcc, k1)
                /\ es[b] = eventQuery(log, mvcc, k2)
                /\ mvcc[k1] < mvcc[k2])
                 => IF desc THEN b < a ELSE a < b
          /\ desc =>
               [i \in DOMAIN es |-> es[Len(es) + 1 - i]]
                 \in QueryResults(log, mvcc, SearchQuery(out'.query.filters, FALSE))]_vars

\* A descending Filter returned a later committed event of lower sequence
\* before an earlier one of higher sequence.
C15_Witness ==
  /\ out.op = "Filter" /\ out.err = NoError
  /\ out.query.desc
  /\ Len(out.events) >= 2
  /\ out.events[1].creation_date > out.events[2].creation_date
  /\ out.events[1].event_sequence < out.events[2].event_sequence

\* C16: Filter with the predicates sequence > N and instance I, ascending,
\* returns only events of instance I with a sequence above N; when there is
\* such an event the smallest sequence returned is N+1; and the sequences of
\* the returned list increase monotonically in list order.
C16_SequenceGreaterMonotonic ==
  [][\A i \in CtxInstances, n \in 0..1 :
       (FilterReturns /\ out'.query = SequenceGreaterQuery(i, n)) =>
         LET es == out'.events
         IN /\ \A a \in DOMAIN es :
                 es[a].instance_id = i /\ es[a].event_sequence > n
            /\ (\E k \in DOMAIN log :
                  log[k].instance_id = i /\ log[k].event_sequence > n)
                 => /\ Len(es) > 0
                    /\ \E a \in DOMAIN es : es[a].event_sequence = n + 1
            /\ \A a, b \in DOMAIN es :
                 a < b => es[a].event_sequence <= es[b].event_sequence]_vars

\* The committed events of org id in instance i, in commit order, as Filter
\* returns them.
OrgEvents(i, id) ==
  LET K == {k \in DOMAIN log : /\ log[k].instance_id = i
                               /\ log[k].aggregate_type = "org"
                               /\ log[k].aggregate_id = id}
      Nth(n) == CHOOSE k \in K : Cardinality({j \in K : j <= k}) = n
  IN [n \in 1..Cardinality(K) |-> eventQuery(log, mvcc, Nth(n))]

\* C17: a Filter that the store answers returns the empty list, and no
\* error, for a query no event matches. OrgByID returns NotFound exactly when
\* Filter answered with no event for the org in the caller's instance; when
\* Filter answered with events it returns, without error, the org reduced
\* from them; it returns no org otherwise.
C17_EmptyIsNotAnError ==
  [][/\ (out' # out /\ out'.op = "Filter"
         /\ Matching(log, mvcc, out'.query) = {}) =>
          /\ out'.events = <<>>
          /\ out'.err # NoError => out'.err = QueryFailed
     /\ (out' # out /\ out'.op = "OrgByID") =>
          LET es == OrgEvents(out'.instance, out'.id)
              answered == out'.err # QueryFailed
          IN /\ out'.err.kind = "NotFound" <=> (answered /\ es = <<>>)
             /\ (answered /\ es # <<>>) =>
                  /\ out'.err = NoError
                  /\ out'.org = mapOrg(out'.id, es)
             /\ out'.err # NoError => out'.org = Nil]_vars

\* OrgByID returned NotFound for an org that has an event in the other
\* instance only.
C17_Witness ==
  /\ out.op = "OrgByID"
  /\ out.err = ThrowNotFound("Errors.Org.NotFound")
  /\ \E k \in DOMAIN log :
       /\ log[k].aggregate_type = "org"
       /\ log[k].aggregate_id = out.id
       /\ log[k].instance_id # out.instance

\* The aggregate instances the Push of caller p targets.
Targets(p) ==
  {<<InstanceOf(cmds[p][i], ctx[p]), cmds[p][i].typ, cmds[p][i].id>> :
     i \in DOMAIN cmds[p]}

\* C18: two concurrent Push calls that target different aggregate instances
\* never contend: the commit of one never makes the store abort the
\* transaction of the other (which crdb.ExecuteTx then has to run again),
\* also when the aggregates have the same type and instance.
C18_DifferentAggregatesNeverContend ==
  [][\A p, q \in Procs :
       (/\ p # q
        /\ pc[q] = "commit" /\ pc'[q] = "ret"
        /\ ~stale[p] /\ stale'[p])
         => Targets(p) \cap Targets(q) # {}]_vars

\* The statement constraint uc stands for, when run for context instance c.
StatementOf(uc, c) ==
  CASE uc.action = "Add" ->
         Write("uniqueInsert", UCRow(uc.unique_type, ToLower(uc.unique_field), c))
    [] uc.action = "Remove" ->
         Write("uniqueDelete", UCRow(uc.unique_type, ToLower(uc.unique_field), c))
    [] uc.action = "InstanceRemove" ->
         Write("uniqueDeleteInstance", UCRow("", "", c))

\* The j-th constraint of caller p's Push is an Add whose key is in the
\* constraint table when the constraints before it have been applied.
HitsExistingKey(p, j) ==
  LET ucs == AllUniqueConstraints(cmds[p])
      before == ApplyWrites(uniq, [i \in 1..(j - 1) |-> StatementOf(ucs[i], ctx[p])])
  IN /\ ucs[j].action = "Add"
     /\ before[StatementOf(ucs[j], ctx[p]).row] > 0

\* The run of caller p's closure that ends in this step got as far as its
\* j-th constraint, everything before having succeeded, and the statement of
\* that constraint met no storage fault.
Reaches(p, j) ==
  /\ pc[p] = "run"
  /\ \A i \in DOMAIN cmds[p] : cmds[p][i].payload # Unmarshalable
  /\ tx'[p].fault.at \in {"none", "uc"}
  /\ tx'[p].fault.at = "uc" => tx'[p].fault.k > j
  /\ \A i \in 1..(j - 1) : ~HitsExistingKey(p, i)

\* C19: every error Push returns is typed. It is an AlreadyExists error,
\* carrying the message of the constraint, exactly when a unique-constraint
\* Add hit an existing key; for every other failure (a payload that cannot
\* be serialized, a failed event insert, a failed constraint statement, a
\* transaction that cannot be begun or committed) it is an Internal error.
C19_ErrorsAreTyped ==
  [][\A p \in Procs :
       LET ucs == AllUniqueConstraints(cmds[p])
           err == tx'[p].err
       IN /\ (Returns(p) /\ err # NoError) =>
               /\ err.kind \in {"AlreadyExists", "Internal"}
               /\ err.kind = "AlreadyExists" <=>
                    \E j \in DOMAIN ucs : Reaches(p, j) /\ HitsExistingKey(p, j)
               /\ \A j \in DOMAIN ucs :
                    (Reaches(p, j) /\ HitsExistingKey(p, j)) =>
                      err = ThrowAlreadyExists(ucs[j].msg)
          /\ (/\ pc[p] = "run" /\ pc'[p] # "run"
              /\ \/ \E i \in DOMAIN cmds[p] : cmds[p][i].payload = Unmarshalable
                 \/ tx'[p].fault.at \in {"begin", "insert"}
                 \/ \E j \in DOMAIN ucs : Reaches(p, j) /\ HitsExistingKey(p, j))
               => (Returns(p) /\ err # NoError)]_vars

\* Push returned the internal error it wraps an untyped error into: the
\* payload of a command could not be serialized.
C19_Witness ==
  \E p \in Procs :
    /\ pc[p] = "ret"
    /\ tx[p].err = ThrowInternal("unable to store events")
    /\ tx[p].fault = NoFault
    /\ \E i \in DOMAIN cmds[p] : cmds[p][i].payload = Unmarshalable

\* The store has aborted the transaction of caller p's Push: a concurrent
\* Push committed into what it read.
Aborted(p) == pc[p] = "commit" /\ stale[p]

C30_CreationFollowsVisibility ==
  \A j, k \in DOMAIN log :
    mvcc[j] < mvcc[k] => log[j].creation_date <= log[k].creation_date

\* The k-th committed event as Filter returns it to a projection.
LogEvent(k) == eventQuery(log, mvcc, k)

\* C21: the statements of the session and execution reducers are
\* idempotent. For every committed event and either projection, in every
\* reachable state of the projection's table: the reducer returns a
\* statement, applying the statement raises no error, and applying it a
\* second time raises no error and leaves the table as the first
\* application left it. That covers the Create of a session.added event
\* whose row exists.
C21_StatementsIdempotent ==
  \A P \in Projections, k \in DOMAIN log :
    LET r == Reduce(P, LogEvent(k), GoType(LogEvent(k)))
        once == Execute(Table(P), r.stmt)
        twice == Execute(once.rows, r.stmt)
    IN /\ r.err = NoError
       /\ once.err = NoError
       /\ twice.err = NoError
       /\ twice.rows = once.rows

\* The row of a session is in the table when the Create of its
\* session.added event is applied again.
C21_Witness ==
  \E k \in DOMAIN log :
    /\ log[k].event_type = "session.added"
    /\ \E j \in DOMAIN processed[SessionsProjectionTable] :
         processed[SessionsProjectionTable][j] = LogEvent(k)
    /\ \E r \in sessions :
         r.id = log[k].aggregate_id /\ r.instance_id = log[k].instance_id

\* The Set events of the executions row r that the projection has processed
\* since the row was last removed: the positions, in the order processed.
IsSetOf(e, r) ==
  /\ e.aggregate_type = "execution"
  /\ e.event_type = "execution.set"
  /\ e.instance_id = r.instance_id
  /\ e.resource_owner = r.resource_owner
  /\ e.aggregate_id = r.id
RemovesRow(e, r) ==
  \/ /\ e.aggregate_type = "execution"
     /\ e.event_type = "execution.removed"
     /\ e.instance_id = r.instance_id
     /\ e.resource_owner = r.resource_owner
     /\ e.aggregate_id = r.id
  \/ /\ e.aggregate_type = "instance"
     /\ e.event_type = "instance.removed"
     /\ e.aggregate_id = r.instance_id
SetsSinceRemoval(r) ==
  LET done == processed[ExecutionTable]
  IN {j \in DOMAIN done :
        /\ IsSetOf(done[j], r)
        /\ \A m \in j..Len(done) : ~RemovesRow(done[m], r)}

\* C22: a row of the executions projection carries the creation date of the
\* first Set event applied to its (instance_id, resource_owner, id) since
\* the row was last removed, and the change date, sequence, targets and
\* includes of the most recent one.
C22_CreationDateKept ==
  \A r \in executions :
    LET done == processed[ExecutionTable]
        S == SetsSinceRemoval(r)
    IN /\ S # {}
       /\ LET first == done[CHOOSE j \in S : \A m \in S : j <= m]
              last == done[CHOOSE j \in S : \A m \in S : m <= j]
          IN /\ r.creation_date = first.creation_date
             /\ r.change_date = last.creation_date
             /\ r.sequence = last.event_sequence
             /\ r.targets = last.event_data
             /\ r.includes = last.event_data

\* Two Set events were applied to one execution: the row has the creation
\* date of the first and the change date of the second.
C22_Witness ==
  \E r \in executions :
    /\ Cardinality(SetsSinceRemoval(r)) = 2
    /\ r.creation_date < r.change_date
    /\ r.sequence = 2

\* The events whose reducers return an Update or a Delete: the pairs of
\* aggregate type and event type.
UpdatesOrDeletes(P) == Reducers(P) \ {<<"execution", "execution.set">>,
                                      <<"session", "session.added">>}

\* The rows of a projection's table the event's statement is conditioned
\* on: the session or execution of the event, the sessions of the user with
\* an older password check, the rows of the removed instance.
TargetRows(P, e) ==
  CASE e.aggregate_type = "session" ->
         {r \in Table(P) : r.id = e.aggregate_id /\ r.instance_id = e.instance_id}
    [] e.aggregate_type = "execution" ->
         {r \in Table(P) : /\ r.id = e.aggregate_id
                           /\ r.instance_id = e.instance_id
                           /\ r.resource_owner = e.resource_owner}
    [] e.aggregate_type = "user" ->
         {r \in Table(P) : /\ r.user_id = Val(e.aggregate_id)
                           /\ r.password_checked_at # NULL
                           /\ Get(r.password_checked_at) < e.creation_date}
    [] OTHER -> {r \in Table(P) : r.instance_id = e.aggregate_id}

\* An event with an Update or Delete reducer whose conditions match no row.
MatchesNoRow(P, e) ==
  /\ <<e.aggregate_type, e.event_type>> \in UpdatesOrDeletes(P)
  /\ TargetRows(P, e) = {}

\* A catch-up step has just run without a wrong runtime type and without a
\* storage failure.
Untroubled(o) ==
  /\ o.op = "CatchUp"
  /\ o.failAt = 0
  /\ \A k \in DOMAIN o.events : o.shapes[k] = GoType(o.events[k])

\* C23: an Update or Delete whose conditions match no row raises no error,
\* leaves the table as it is and creates no row; a catch-up step made of
\* such events commits, leaves the table unchanged and moves the watermark
\* past them.
C23_ZeroRowsTolerated ==
  /\ [](\A P \in Projections, k \in DOMAIN log :
          MatchesNoRow(P, LogEvent(k)) =>
            LET x == Execute(Table(P),
                             Reduce(P, LogEvent(k), GoType(LogEvent(k))).stmt)
            IN x.err = NoError /\ x.rows = Table(P))
  /\ [][(/\ out' # out
         /\ Untroubled(out')
         /\ \A k \in DOMAIN out'.events :
              MatchesNoRow(out'.projection, out'.events[k]))
        => /\ out'.err = NoError
           /\ executions' = executions
           /\ sessions' = sessions
           /\ \A k \in DOMAIN out'.events :
                watermark'[out'.projection][out'.instance]
                  >= out'.events[k].event_sequence]_vars

\* The sessions projection has processed a check of a session that has no
\* row: the table is still empty and the watermark is at the event.
C23_Witness ==
  /\ Len(processed[SessionsProjectionTable]) = 1
  /\ processed[SessionsProjectionTable][1].event_type = "session.user.checked"
  /\ sessions = NoRows
  /\ watermark[SessionsProjectionTable]["i1"] = 1
  /\ out.op = "CatchUp" /\ out.err = NoError

IsInstanceRemoved(e) ==
  e.aggregate_type = "instance" /\ e.event_type = "instance.removed"
OfOtherInstances(rows, I) == {r \in rows : r.instance_id # I}

\* C24: the statement of an instance-removed event of instance I is a
\* delete on the instance id column alone; applied to the sessions or the
\* executions table it leaves no row of I and every row of the other
\* instances as it was, and so does a catch-up step that reduces the event.
C24_InstanceRemovedFrame ==
  /\ [](\A P \in Projections, k \in DOMAIN log :
          IsInstanceRemoved(LogEvent(k)) =>
            LET I == LogEvent(k).aggregate_id
                r == Reduce(P, LogEvent(k), GoType(LogEvent(k)))
                x == Execute(Table(P), r.stmt)
            IN /\ r.err = NoError /\ x.err = NoError
               /\ r.stmt.kind = "delete"
               /\ r.stmt.conds = <<NewCond("instance_id", I)>>
               /\ x.rows = OfOtherInstances(Table(P), I))
  /\ [][(/\ out' # out
         /\ Untroubled(out')
         /\ Len(out'.events) = 1
         /\ IsInstanceRemoved(out'.events[1]))
        => LET I == out'.events[1].aggregate_id
           IN /\ out'.err = NoError
              /\ out'.projection = ExecutionTable =>
                   executions' = OfOtherInstances(executions, I)
              /\ out'.projection = SessionsProjectionTable =>
                   sessions' = OfOtherInstances(sessions, I)]_vars

\* The sessions projection had a session of instance i1 and one of instance
\* i2 and has reduced the removal of i1: the session of i2 is what is left.
C24_Witness ==
  LET done == processed[SessionsProjectionTable]
  IN /\ \E j \in DOMAIN done :
          /\ IsInstanceRemoved(done[j]) /\ done[j].aggregate_id = "i1"
          /\ \E m \in 1..(j - 1) :
               done[m].event_type = "session.added" /\ done[m].instance_id = "i1"
     /\ sessions # NoRows
     /\ \A r \in sessions : r.instance_id = "i2"

\* Runtime types reducers are tried with: that of an event without a
\* reducer and those of the events that create the rows. The event e as an
\* event of the pair t.
GoTypes == {BaseEvent, "*session.AddedEvent", "*exec.SetEvent"}
EventOfType(e, t) == [e EXCEPT !.aggregate_type = t[1], !.event_type = t[2]]

\* The first event of the batch that has a reducer and came with a runtime
\* type its reducer does not expect; 0 when there is none.
FirstWrong(o) ==
  LET W == {k \in DOMAIN o.events :
              /\ <<o.events[k].aggregate_type, o.events[k].event_type>>
                   \in Reducers(o.projection)
              /\ o.shapes[k] # GoType(o.events[k])}
  IN IF W = {} THEN 0 ELSE CHOOSE k \in W : \A m \in W : k <= m

\* C25: every reducer of the two projections, invoked with an event of a
\* runtime type other than the one it is registered for, returns an
\* InvalidArgument error and no statement (the reducers are tried on the
\* latest committed event, taken as an event of each registered type, with
\* every other runtime type); a catch-up step that meets such
\* an event (before any storage failure) ends with that error, and neither
\* table nor watermark changes: the event is not skipped.
C25_WrongTypeHalts ==
  /\ [](log # <<>> =>
        \A P \in Projections :
          \A t \in Reducers(P), shape \in GoTypes :
            shape # GoType(EventOfType(LogEvent(Len(log)), t)) =>
              LET r == Reduce(P, EventOfType(LogEvent(Len(log)), t), shape)
              IN r.stmt = NoStatement /\ r.err.kind = "InvalidArgument")
  /\ [][(/\ out' # out
         /\ out'.op = "CatchUp"
         /\ FirstWrong(out') # 0
         /\ out'.failAt \notin 1..(FirstWrong(out') - 1))
        => /\ out'.err.kind = "InvalidArgument"
           /\ UNCHANGED projections]_vars

\* A step of the sessions projection on two events met a wrong runtime type
\* at the second: it ended with the error, and the watermark is still below
\* both events.
C25_Witness ==
  /\ out.op = "CatchUp"
  /\ out.projection = SessionsProjectionTable
  /\ Len(out.events) = 2
  /\ FirstWrong(out) = 2
  /\ out.err.kind = "InvalidArgument"
  /\ \A k \in DOMAIN out.events :
       out.events[k].event_sequence > watermark[out.projection][out.instance]

\* The table of projection P after the statements of the first k events of
\* done, applied to the empty table one after the other.
RECURSIVE Replay(_, _, _)
Replay(P, done, k) ==
  IF k = 0 THEN NoRows
  ELSE Execute(Replay(P, done, k - 1),
               Reduce(P, done[k], GoType(done[k])).stmt).rows

\* The highest sequence among the events of instance i in done; 0 for none.
HighestSequence(done, i) ==
  LET S == {done[j].event_sequence :
              j \in {m \in DOMAIN done : done[m].instance_id = i}}
  IN IF S = {} THEN 0 ELSE MaxOf(S)

HasReducer(P, e) == <<e.aggregate_type, e.event_type>> \in Reducers(P)

\* C27: an event whose (aggregate type, event type) has no reducer in the
\* projection gets no statement, whatever its runtime type, and leaves the
\* table as it is; a step without a failure and without a wrong runtime
\* type commits and moves the watermark past every event of its batch, the
\* unregistered ones included, and changes no table when the batch has
\* unregistered events only.
C27_UnregisteredSkipped ==
  /\ [](\A P \in Projections, k \in DOMAIN log :
          ~HasReducer(P, LogEvent(k)) =>
            \A shape \in GoTypes :
              LET r == Reduce(P, LogEvent(k), shape)
                  x == Execute(Table(P), r.stmt)
              IN /\ r.err = NoError /\ r.stmt.kind = "none"
                 /\ x.err = NoError /\ x.rows = Table(P))
  /\ [][(/\ out' # out
         /\ out'.op = "CatchUp"
         /\ out'.failAt = 0
         /\ FirstWrong(out') = 0)
        => /\ out'.err = NoError
           /\ \A k \in DOMAIN out'.events :
                watermark'[out'.projection][out'.instance]
                  >= out'.events[k].event_sequence
           /\ (\A k \in DOMAIN out'.events :
                 ~HasReducer(out'.projection, out'.events[k]))
                => executions' = executions /\ sessions' = sessions]_vars

\* The sessions projection has passed an event without a reducer and then
\* applied the Create of a later event of the same session.
C27_Witness ==
  LET done == processed[SessionsProjectionTable]
  IN /\ Len(done) >= 2
     /\ done[1].event_type = "session.other"
     /\ done[2].event_type = "session.added"
     /\ \E r \in sessions : r.sequence = 2 /\ r.id = done[2].aggregate_id
     /\ watermark[SessionsProjectionTable]["i1"] >= 2

C29_NoEventSkipped ==
  \A P \in Projections, k \in DOMAIN log :
    (/\ HasReducer(P, LogEvent(k))
     /\ LogEvent(k).event_sequence <= watermark[P][LogEvent(k).instance_id])
      => \E j \in DOMAIN processed[P] : processed[P][j] = LogEvent(k)

\* C31: a command without a payload is no reason for Push to fail or to
\* leave the command out.  In a run of the closure without a storage fault
\* a command with a nil payload whose predecessors were all inserted is
\* inserted too, with NULL data in the row and nil Data in the returned
\* event; and the commit appends the row of every such command, with NULL
\* data, at the command's place.
C31_NilPayloadCommits ==
  [][\A p \in Procs :
       /\ Runs(p) =>
            \A i \in DOMAIN cmds[p] :
              (/\ cmds[p][i].payload = Nil
               /\ \A k \in 1..(i - 1) : tx'[p].events[k] # NilEvent)
                => /\ tx'[p].events[i] # NilEvent
                   /\ tx'[p].events[i].Data = NULL
                   /\ tx'[p].events[i].Typ = cmds[p][i].etyp
       /\ (Returns(p) /\ tx'[p].err = NoError) =>
            /\ Len(log') = Len(log) + Len(cmds[p])
            /\ \A i \in DOMAIN cmds[p] :
                 cmds[p][i].payload = Nil =>
                   /\ log'[Len(log) + i].event_data = NULL
                   /\ log'[Len(log) + i].event_type = cmds[p][i].etyp]_vars

\* A Push of a command without a payload returned without an error and
\* its event, with NULL data, is the last of the log.
C31_Witness ==
  \E p \in Procs :
    /\ pc[p] = "ret"
    /\ tx[p].err = NoError
    /\ Len(cmds[p]) = 1
    /\ cmds[p][1].payload = Nil
    /\ Len(log) >= 1
    /\ log[Len(log)].event_data = NULL
    /\ tx[p].events[1].Seq = log[Len(log)].event_sequence
    /\ tx[p].events[1].Data = NULL

\* Constraints uc1 and uc2 address one key: the same type and a field equal
\* up to letter case.
SameKeyOf(uc1, uc2) ==
  /\ uc1.unique_type = uc2.unique_type
  /\ SameUpToCase(uc1.unique_field, uc2.unique_field)

\* C32: within one Push the constraint statements run after the events of
\* all commands were inserted, in the order the commands declare them.  In
\* a run without a storage fault: a batch declaring Remove K and then Add K
\* for a live key K succeeds and its commit leaves K live; a batch
\* declaring Add K twice for a key that is not live, and a batch declaring
\* Add K and then Remove K for a live key, fail with AlreadyExists and
\* commit nothing; and whenever a constraint statement ran or was refused,
\* the event of every command had been inserted before.
C32_ConstraintsAfterEventsInOrder ==
  [][\A p \in Procs :
       LET ucs == AllUniqueConstraints(cmds[p])
           row == UCRow(ucs[2].unique_type, ToLower(ucs[2].unique_field), ctx[p])
       IN Runs(p) =>
            /\ (/\ Len(ucs) = 2
                /\ ucs[1].action = "Remove" /\ ucs[2].action = "Add"
                /\ SameKeyOf(ucs[1], ucs[2]))
                 => /\ tx'[p].err = NoError
                    /\ pc'[p] = "commit"
                    /\ tx'[p].writes =
                         <<Write("uniqueDelete",
                                 UCRow(ucs[1].unique_type, ToLower(ucs[1].unique_field), ctx[p])),
                           Write("uniqueInsert", row)>>
                    /\ ApplyWrites(uniq, tx'[p].writes)[row] = 1
            /\ (/\ Len(ucs) = 2
                /\ ucs[1].action = "Add" /\ ucs[2].action = "Add"
                /\ SameKeyOf(ucs[1], ucs[2]))
                 => FailsAlreadyExists(p)
            /\ (/\ Len(ucs) = 2
                /\ ucs[1].action = "Add" /\ ucs[2].action = "Remove"
                /\ SameKeyOf(ucs[1], ucs[2])
                /\ LiveKey(ucs[1], ctx[p]))
                 => FailsAlreadyExists(p)
            /\ (tx'[p].writes # <<>> \/ tx'[p].err.kind = "AlreadyExists")
                 => /\ Len(tx'[p].events) = Len(cmds[p])
                    /\ \A i \in DOMAIN cmds[p] : tx'[p].events[i] # NilEvent]_vars

\* A Push that declared Remove of "BOB" and then Add of a name equal up to
\* case committed the events of both commands, and the key is live.
C32_Witness ==
  \E p \in Procs :
    LET ucs == AllUniqueConstraints(cmds[p])
    IN /\ pc[p] = "ret"
       /\ tx[p].err = NoError
       /\ Len(cmds[p]) = 2
       /\ Len(ucs) = 2
       /\ ucs[1].action = "Remove" /\ ucs[2].action = "Add"
       /\ SameKeyOf(ucs[1], ucs[2])
       /\ Len(tx[p].writes) = 2
       /\ uniq[UCRow("name", "bob", ctx[p])] = 1
       /\ Len(log) >= 3

\* The number of constraints the commands before the i-th declare.
UCOffset(cs, i) == Len(AllUniqueConstraints(SubSeq(cs, 1, i - 1)))

\* C33: the event of every command is written under the command's instance
\* when it names one and under the context's otherwise, and the constraint
\* statements of the command address rows of the instance of its event.
C33_ConstraintsKeyedByEventInstance ==
  \A p \in Procs :
    pc[p] = "commit" =>
      \A i \in DOMAIN cmds[p] :
        /\ tx[p].rows[i].instance_id = InstanceOf(cmds[p][i], ctx[p])
        /\ \A k \in DOMAIN cmds[p][i].ucs :
             tx[p].writes[UCOffset(cmds[p], i) + k].row.instance_id
               = tx[p].rows[i].instance_id

IsPasswordChanged(e) ==
  e.aggregate_type = "user" /\ e.event_type = "user.human.password.changed"

\* The session rows the password change e of a user is about: those of the
\* event's instance with the user's id and a password check older than the
\* event.
SessionsOfChange(rows, e) ==
  {r \in rows : /\ r.instance_id = e.instance_id
                /\ r.user_id = Val(e.aggregate_id)
                /\ r.password_checked_at # NULL
                /\ Get(r.password_checked_at) < e.creation_date}

\* C34: a catch-up step that reduces the password-changed event of a user
\* of instance I changes session rows of instance I only: it clears
\* password_checked_at on the rows of I with the user's id and an older
\* password check, and every other row, the rows of the other instances
\* included, is left as it was.
C34_PasswordChangedScoped ==
  [][(/\ out' # out
      /\ out'.op = "CatchUp"
      /\ out'.err = NoError
      /\ out'.projection = SessionsProjectionTable
      /\ Len(out'.events) = 1
      /\ IsPasswordChanged(out'.events[1]))
     => LET e == out'.events[1]
            hit == SessionsOfChange(sessions, e)
        IN /\ OfOtherInstances(sessions', e.instance_id)
                = OfOtherInstances(sessions, e.instance_id)
           /\ sessions' = (sessions \ hit)
                \cup {[r EXCEPT !.password_checked_at = NULL] : r \in hit}]_vars

\* The rows of the executions table with the given instance, id and owner.
ExecutionsOf(c, id, resourceOwner) ==
  {r \in executions :
     r.instance_id = c /\ r.id = id /\ r.resource_owner = resourceOwner}

\* C35: GetExecutionByID for a context of instance c returns the row with
\* instance_id c and the given id and resource owner, and NotFound when
\* the table has no such row; SearchExecutions returns rows of instance c
\* only.
C35_ExecutionQueriesInstanceScoped ==
  [][/\ (out' # out /\ out'.op = "GetExecutionByID" /\ out'.err # QueryInternal) =>
          /\ out'.rows = ExecutionsOf(out'.instance, out'.id, out'.resourceOwner)
          /\ out'.err = NoError <=> out'.rows # {}
          /\ out'.err = ThrowNotFound("Errors.Execution.NotFound") <=> out'.rows = {}
     /\ (out' # out /\ out'.op = "SearchExecutions") =>
          \A r \in out'.rows : r.instance_id = out'.instance]_vars

\* C36: a Push that returns an error hands back no event: every slot of
\* the returned list is nil, also when events of the batch had been
\* inserted before the transaction failed.
C36_NoEventsWithError ==
  \A p \in Procs :
    (pc[p] = "ret" /\ tx[p].err # NoError) =>
      \A i \in DOMAIN tx[p].events : tx[p].events[i] = NilEvent

\* C37: the event Push returned and the same event as Filter reads it from
\* the log agree on every field: sequence, previous sequences, resource
\* owner, instance, type, data and creation timestamp.
C37_PushAndFilterAgree ==
  \A p \in Procs :
    (pc[p] = "ret" /\ tx[p].err = NoError) =>
      \A i \in DOMAIN tx[p].events, k \in DOMAIN log :
        LET e == tx[p].events[i]
            f == eventQuery(log, mvcc, k)
        IN (/\ e.InstanceID = f.instance_id
            /\ e.AggregateType = f.aggregate_type
            /\ e.AggregateID = f.aggregate_id
            /\ e.Seq = f.event_sequence)
             => /\ e.Typ = f.event_type
                /\ e.Data = f.event_data
                /\ e.ResourceOwner = f.resource_owner
                /\ e.PreviousAggregateSequence
                     = ScanSequence(f.previous_aggregate_sequence)
                /\ e.PreviousAggregateTypeSequence
                     = ScanSequence(f.previous_aggregate_type_sequence)
                /\ e.CreationDate = f.creation_date

\* The events the sessions projection has applied, in order.
SessionsDone == processed[SessionsProjectionTable]

\* An applied event of session s of instance i that has a reducer.
IsSessionEvent(e, i, s) ==
  /\ e.aggregate_type = "session"
  /\ e.instance_id = i
  /\ e.aggregate_id = s
  /\ HasReducer(SessionsProjectionTable, e)

\* The place of the last applied event that removes the row of session s of
\* instance i (its Terminate, or the removal of the instance), 0 if none.
LastRemoval(i, s) ==
  MaxOf({0} \cup {j \in DOMAIN SessionsDone :
                    \/ /\ IsSessionEvent(SessionsDone[j], i, s)
                       /\ SessionsDone[j].event_type = "session.terminated"
                    \/ /\ IsInstanceRemoved(SessionsDone[j])
                       /\ SessionsDone[j].aggregate_id = i})

\* The places of the Added events of the session applied after that.
AddedSince(i, s) ==
  {j \in DOMAIN SessionsDone :
     /\ j > LastRemoval(i, s)
     /\ IsSessionEvent(SessionsDone[j], i, s)
     /\ SessionsDone[j].event_type = "session.added"}

\* The place of the Added event that created the row.
CreatedAt(i, s) == CHOOSE j \in AddedSince(i, s) : \A k \in AddedSince(i, s) : j <= k

SessionRows(i, s) == {r \in sessions : r.instance_id = i /\ r.id = s}
SessionIDs == {SessionsDone[j].aggregate_id : j \in DOMAIN SessionsDone}

ExecutionKeys ==
  {[instance_id |-> e.instance_id, resource_owner |-> e.resource_owner,
    id |-> e.aggregate_id] :
     e \in {processed[ExecutionTable][j] : j \in DOMAIN processed[ExecutionTable]}}

ExecutionRows(key) ==
  {r \in executions : /\ r.instance_id = key.instance_id
                      /\ r.resource_owner = key.resource_owner
                      /\ r.id = key.id}

IsExecutionRemoved(e) ==
  e.aggregate_type = "execution" /\ e.event_type = "execution.removed"

\* C39: the executions table has exactly one row for a key (instance_id,
\* resource_owner, id) when the event applied last for that key is a Set,
\* with no removal of the instance after it, and none otherwise; and a
\* catch-up step that applies one Removed event deletes the row with the
\* event's key and leaves every other row as it was.
C39_ExecutionRowFollowsEvents ==
  /\ [](/\ \A key \in ExecutionKeys :
             /\ ExecutionRows(key) # {} <=> SetsSinceRemoval(key) # {}
             /\ Cardinality(ExecutionRows(key)) <= 1
        /\ \A r \in executions :
             [instance_id |-> r.instance_id, resource_owner |-> r.resource_owner,
              id |-> r.id] \in ExecutionKeys)
  /\ [][(/\ out' # out
         /\ Untroubled(out')
         /\ out'.projection = ExecutionTable
         /\ Len(out'.events) = 1
         /\ IsExecutionRemoved(out'.events[1]))
        => LET e == out'.events[1]
           IN /\ out'.err = NoError
              /\ executions' =
                   executions \ ExecutionRows([instance_id |-> e.instance_id,
                                               resource_owner |-> e.resource_owner,
                                               id |-> e.aggregate_id])]_vars

\* The executions projection applied the Set of x1 in two instances and
\* then the Removed event of one: the row of the other instance is left.
C39_Witness ==
  LET done == processed[ExecutionTable]
  IN /\ \E j \in DOMAIN done :
          /\ IsExecutionRemoved(done[j])
          /\ \E k \in DOMAIN done :
               /\ done[k].event_type = "execution.set"
               /\ done[k].instance_id = done[j].instance_id
               /\ done[k].event_sequence < done[j].event_sequence
          /\ \E r \in executions :
               r.id = done[j].aggregate_id /\ r.instance_id # done[j].instance_id
          /\ \A r \in executions : r.instance_id # done[j].instance_id
     /\ Cardinality(executions) = 1

\* The instance ID is a non-empty string of letters and digits.
IsPlainID(instanceID) ==
  Len(instanceID) >= 1 /\ \A k \in DOMAIN instanceID : IsAlnum(instanceID[k])

\* C40: CreateInstance executes CREATE SEQUENCE only for an instance ID
\* that is a non-empty string of ASCII letters and digits, and then the
\* statement is "CREATE SEQUENCE eventstore.i_<instanceID>_seq"; for any
\* other instance ID it returns an invalid-argument error and executes no
\* DDL.
C40_OnlyPlainIDsCreateSequences ==
  out.op = "CreateInstance" =>
    /\ out.ddl # NoDDL =>
         /\ IsPlainID(out.instanceID)
         /\ out.ddl = CreateSequence(SeqPrefix \o out.instanceID \o SeqSuffix)
    /\ ~IsPlainID(out.instanceID) =>
         /\ out.ddl = NoDDL
         /\ out.err = ThrowInvalidArgument("Errors.InvalidArgument")
====
